---- MODULE Spec2Model ----
(***************************************************************************)
(* A model of the NASA CMR agent: the circuit breaker, the retrying search *)
(* client, the federated search orchestrator (CMRAgent.run), the stage     *)
(* graph of the pipeline, the language-model agents with their router, and *)
(* the HTTP server (session memory, streaming endpoint).                   *)
(*                                                                         *)
(* Time is counted in ticks of 0.5 s (the base of the retry backoff).      *)
(* The metadata API is the environment: every HTTP request that was sent   *)
(* is answered at some later step with a 2xx JSON document, a non-2xx      *)
(* status or a transport error.                                            *)
(***************************************************************************)
EXTENDS Integers, Sequences, FiniteSets, Bags, TLC

VARIABLES
    \* ---- CircuitBreaker (src/cmr_agent/cmr/circuit.py)
    failure_threshold,      \* CircuitBreaker.failure_threshold
    recovery_time_seconds,  \* CircuitBreaker.recovery_time_seconds
    failures,               \* CircuitBreaker.failures
    open_until,             \* CircuitBreaker.open_until, in ticks; 0 = no window
    now,                    \* time.time(), in ticks
    \* ---- history of the breaker (not program state); the last three are kept
    \* ---- while the breaker is driven directly (BreakerSuccess, BreakerFailure)
    cb_rec,                 \* per caller: how often it called record_success / record_failure
    thresh_time,            \* time of the failure that brought failures to the threshold (0: none)
    last_fail_time,         \* time of the latest record_failure (0: none)
    consec_fail,            \* record_failure calls since the latest record_success
    allow_ret,              \* what the latest direct call of allow() returned, and when (0: never)
    \* ---- AsyncCMRClient (src/cmr_agent/cmr/client.py): the search calls
    calls,
    \* ---- CMRAgent (src/cmr_agent/agents/cmr_agent.py)
    collection_cache,       \* CMRAgent.collection_cache: the concept ids it holds
    circuit_tripped,        \* CMRAgent.circuit_tripped
    run_pc,                 \* where the current CMRAgent.run is
    run_no,                 \* how many runs were started on this agent
    plan,                   \* the stages of the plan given to the current run
    stage,                  \* per stage: where run_stage is, and its locals
    run_result,             \* what run returned
    \* ---- history of the agent (not program state)
    faults,                 \* the requests of the current run the API has failed
    lookups,                \* the id lists of the concept-id batch lookups made so far
    rejections,             \* whether a search call of the current run was rejected by the open breaker
    \* ---- the pipeline (src/cmr_agent/graph/pipeline.py)
    user_query,             \* what the validation rules see of the query
    node,                   \* the node of the graph to run next
    state,                  \* the QueryState: the keys set so far and their values
    executed,               \* history: the nodes run so far, in order
    search_calls,           \* history: the search calls issued by the run
    final,                  \* what synthesis_step returned
    \* ---- cmr_step (src/cmr_agent/graph/pipeline.py) and the agent it creates
    closed,                 \* whether the agent's HTTP client was closed (AsyncCMRClient.close)
    step_pc,                \* where cmr_step is: idle, running, returned, raised
    seen_ids,               \* history: the concept ids cached by the agents of earlier requests
    \* ---- the HTTP server (src/server/main.py)
    SESSIONS,               \* SESSIONS: session id -> the queries remembered for it
    response,               \* the latest request: the session id it gave, what it was answered with
    asked,                  \* history: per session id given, the queries made under it, in order
    failed,                 \* history: the session ids under which a request ended in an error
    \* ---- IntentAgent / SynthesisAgent (src/cmr_agent/agents) and the LLMRouter
    agent_kind,             \* which agent this is: intent or synthesis
    router,                 \* self.router: whether there is one, its providers and failure marks
    agent_llm,              \* self.llm: the provider in use, or None
    llm_call,               \* the current call of run: where it is, the providers it invoked
    llm_ret,                \* what the latest finished call of run returned
    llm_hist,               \* history: calls made, model invocations made, the call that fell back
    \* ---- run_query_stream (src/server/main.py)
    stream_pc,              \* where the generator is
    stream_run,             \* its locals: session id, history, subqueries, tasks not yet completed
    stream,                 \* the records it has yielded so far, in order
    stream_no,              \* history: the runs started
    \* ---- the functions checked on their own (validation, planning, analysis, utils)
    applied,                \* the function that was applied, or none
    args,                   \* the arguments it was applied to
    ret,                    \* what it returned
    \* ---- CMRAgent.run without a plan (src/cmr_agent/agents/cmr_agent.py)
    plain_pc,               \* where run is: idle, running, returned
    plain,                  \* per subquery: the tasks of search_for and what it returned
    plain_ready,            \* the tasks the event loop has yet to run for the first time, in order
    plain_log,              \* history: the searches issued, in order
    \* ---- concurrent calls of run_query_stream (src/server/main.py)
    requests                \* per request: where it is, its session id, query and history

breakerVars == <<failure_threshold, recovery_time_seconds, failures, open_until,
                 cb_rec, thresh_time, last_fail_time, consec_fail, allow_ret>>
historyVars == <<thresh_time, last_fail_time, consec_fail, allow_ret>>
clientVars == <<calls, faults>>
agentVars == <<collection_cache, circuit_tripped, run_pc, run_no, plan, stage,
               run_result, lookups, rejections>>
pipeVars == <<user_query, node, state, executed, search_calls, final>>
stepVars == <<closed, step_pc, seen_ids>>
serverVars == <<SESSIONS, response, asked, failed>>
llmVars == <<agent_kind, router, agent_llm, llm_call, llm_ret, llm_hist>>
streamVars == <<stream_pc, stream_run, stream, stream_no>>
pureVars == <<applied, args, ret>>
plainVars == <<plain_pc, plain, plain_ready, plain_log>>
overlapVars == <<requests>>
appVars == <<serverVars, llmVars, streamVars, pureVars, plainVars, overlapVars>>
extVars == <<stepVars, appVars>>
baseVars == <<breakerVars, now, clientVars, agentVars, pipeVars>>
vars == <<extVars, allow_ret, user_query, node, state, executed, search_calls, final, faults, failure_threshold, recovery_time_seconds, failures, open_until, now,
          cb_rec, thresh_time, last_fail_time, consec_fail, calls,
          collection_cache, circuit_tripped, run_pc, run_no, plan, stage,
          run_result, lookups, rejections>>

----------------------------------------------------------------------------
(* Bounds of the model *)

MaxThreshold == 2
MaxRecovery == 2
MaxTime == 4
MaxOps == 5
NCalls == 2
MaxStages == 2
MaxTerms == 1
MaxRuns == 2
MaxFaults == 2
MaxFound == 2
MaxOverlap == 2

(* Program constants *)

MaxAttempts == 3
TicksPerSecond == 2
WaitMinTicks == 1
WaitMaxTicks == 6
TermLimit == 3
GranuleLimit == 3
BatchLimit == 50
GranulePageSize == 50

----------------------------------------------------------------------------
(* Search calls.  A call is one invocation of search_collections,          *)
(* search_granules or search_variables; its identifier names who made it.  *)

DirectCaller == <<0, "direct", 0>>
ClientCallIds == {<<0, "call", i>> : i \in 1..NCalls}

StageIds == 1..MaxStages
AgentCallIds ==
    {<<s, k, i>> : s \in StageIds, k \in {"var", "short", "sci"}, i \in 1..MaxTerms}
    \cup {<<s, k, 1>> : s \in StageIds, k \in {"id", "kw"}}
    \cup {<<s, "gran", i>> : s \in StageIds, i \in 1..(GranuleLimit + 1)}


(* The calls of one more term in stage 1, for plans of MaxTerms + 1 terms. *)
WideCallIds == {<<1, k, MaxTerms + 1>> : k \in {"var", "short", "sci"}}

CallIds == ClientCallIds \cup AgentCallIds \cup WideCallIds
Callers == ClientCallIds \cup {DirectCaller}

NoParams == [kind |-> "", value |-> ""]
NoCall == [pc |-> "unused", attempt |-> 0, wake |-> 0, http |-> 0, rejected |-> 0,
           ok |-> 0, err |-> 0, endpoint |-> "", params |-> NoParams, result |-> <<>>]

Endpoints == <<"collections", "granules", "variables">>

(* The i-th caller of the client alone uses the i-th search method (mod 3). *)
EndpointOf(c) == Endpoints[((c[3] - 1) % 3) + 1]

----------------------------------------------------------------------------
(* CircuitBreaker *)

allow_Strict == ~(open_until # 0 /\ now <= open_until)

allow == ~(open_until # 0 /\ now < open_until)

record_success_KeepWindow(c) ==
    /\ failures' = 0
    /\ open_until' = open_until
    /\ cb_rec' = [x \in Callers |->
                    IF x = c THEN [cb_rec[x] EXCEPT !.succ = @ + 1] ELSE cb_rec[x]]
    /\ UNCHANGED <<failure_threshold, recovery_time_seconds>>

record_success(c) ==
    /\ failures' = 0
    /\ open_until' = 0
    /\ cb_rec' = [x \in Callers |->
                    IF x = c THEN [cb_rec[x] EXCEPT !.succ = @ + 1] ELSE cb_rec[x]]
    /\ UNCHANGED <<failure_threshold, recovery_time_seconds>>

record_failure_NoOpen(c) ==
    /\ failures' = failures + 1
    /\ open_until' = IF failures + 1 > failure_threshold
                     THEN now + TicksPerSecond * recovery_time_seconds
                     ELSE open_until
    /\ cb_rec' = [x \in Callers |->
                    IF x = c THEN [cb_rec[x] EXCEPT !.fail = @ + 1] ELSE cb_rec[x]]
    /\ UNCHANGED <<failure_threshold, recovery_time_seconds>>

(* record_failure opening the window only when the count reaches the threshold *)
record_failure_OnceOnly(c) ==
    /\ failures' = failures + 1
    /\ open_until' = IF failures + 1 = failure_threshold
                     THEN now + TicksPerSecond * recovery_time_seconds
                     ELSE open_until
    /\ cb_rec' = [x \in Callers |->
                    IF x = c THEN [cb_rec[x] EXCEPT !.fail = @ + 1] ELSE cb_rec[x]]
    /\ UNCHANGED <<failure_threshold, recovery_time_seconds>>

record_failure(c) ==
    /\ failures' = failures + 1
    /\ open_until' = IF failures + 1 >= failure_threshold
                     THEN now + TicksPerSecond * recovery_time_seconds
                     ELSE open_until
    /\ cb_rec' = [x \in Callers |->
                    IF x = c THEN [cb_rec[x] EXCEPT !.fail = @ + 1] ELSE cb_rec[x]]
    /\ UNCHANGED <<failure_threshold, recovery_time_seconds>>

BreakerInit ==
    /\ failure_threshold \in 1..MaxThreshold
    /\ recovery_time_seconds \in 1..MaxRecovery
    /\ failures = 0
    /\ open_until = 0
    /\ cb_rec = [c \in Callers |-> [succ |-> 0, fail |-> 0]]
    /\ thresh_time = 0
    /\ last_fail_time = 0
    /\ consec_fail = 0
    /\ allow_ret = [ret |-> TRUE, at |-> 0]

(* The clock: time passes between any two steps of the program. *)
Tick ==
    /\ now < MaxTime
    /\ now' = now + 1
    /\ UNCHANGED <<breakerVars, clientVars, agentVars, pipeVars, extVars>>

----------------------------------------------------------------------------
(* The breaker driven directly through its three methods. *)

DirectOps == cb_rec[DirectCaller].succ + cb_rec[DirectCaller].fail

BreakerSuccess ==
    /\ DirectOps < MaxOps
    /\ record_success(DirectCaller)
    /\ thresh_time' = 0
    /\ consec_fail' = 0
    /\ last_fail_time' = last_fail_time
    /\ allow_ret' = allow_ret
    /\ UNCHANGED <<now, clientVars, agentVars, pipeVars, extVars>>

BreakerFailure ==
    /\ DirectOps < MaxOps
    /\ record_failure(DirectCaller)
    /\ thresh_time' = IF consec_fail + 1 = failure_threshold THEN now ELSE thresh_time
    /\ last_fail_time' = now
    /\ consec_fail' = consec_fail + 1
    /\ allow_ret' = allow_ret
    /\ UNCHANGED <<now, clientVars, agentVars, pipeVars, extVars>>

(* allow() called directly: it returns, and writes nothing. *)
BreakerAllow ==
    /\ allow_ret' = [ret |-> allow, at |-> now]
    /\ UNCHANGED <<failure_threshold, recovery_time_seconds, failures, open_until, cb_rec,
                   thresh_time, last_fail_time, consec_fail, now, clientVars, agentVars,
                   pipeVars, extVars>>

NoStage == [pc |-> "none", var_items |-> <<>>, related |-> <<>>, cached |-> <<>>,
            missing |-> <<>>, by_id |-> <<>>, kw_cols |-> <<>>, merged |-> <<>>, out |-> <<>>]

(* No pipeline run: the graph is not invoked. *)
NoPipeline ==
    /\ user_query = <<>>
    /\ node = "none"
    /\ state = <<>>
    /\ executed = <<>>
    /\ search_calls = 0
    /\ final = <<>>

(* No cmr_step is running; the client of the agent is open. *)
NoStep ==
    /\ closed = FALSE
    /\ step_pc = "idle"
    /\ seen_ids = {}

(* No request was made: SESSIONS = {} *)
NoServer ==
    /\ SESSIONS = <<>>
    /\ response = <<>>
    /\ asked = <<>>
    /\ failed = {}

NoLlmCall == [pc |-> "idle", query |-> "", invoked |-> <<>>, failed |-> 0]

(* No language-model agent is in use. *)
NoLlmAgent ==
    /\ agent_kind = "intent"
    /\ router = [present |-> FALSE, providers |-> {},
                 primary_failed |-> FALSE, secondary_failed |-> FALSE]
    /\ agent_llm = "None"
    /\ llm_call = NoLlmCall
    /\ llm_ret = <<>>
    /\ llm_hist = [calls |-> 0, invocations |-> 0, fell_back_at |-> 0]

NoRun == [sid |-> "", history |-> <<>>, n |-> 0, sub |-> 0, pending |-> {}]

(* No run of the streaming endpoint. *)
NoStream ==
    /\ stream_pc = "idle"
    /\ stream_run = NoRun
    /\ stream = <<>>
    /\ stream_no = 0

(* No function is being applied on its own. *)
NoApply ==
    /\ applied = "none"
    /\ args = <<>>
    /\ ret = <<>>

(* CMRAgent.run is not running without a plan. *)
NoPlain ==
    /\ plain_pc = "idle"
    /\ plain = <<>>
    /\ plain_ready = <<>>
    /\ plain_log = <<>>

(* No request is being streamed concurrently with another. *)
NoRequest == [pc |-> "none", sid |-> "", query |-> "", history |-> <<>>, overlapped |-> FALSE]

NoOverlap == requests = [r \in 1..MaxOverlap |-> NoRequest]

ExtInit == NoStep /\ NoServer /\ NoLlmAgent /\ NoStream /\ NoApply /\ NoPlain /\ NoOverlap

(* CMRAgent.__init__ *)
AgentInit ==
    /\ collection_cache = {}
    /\ circuit_tripped = FALSE
    /\ run_pc = "idle"
    /\ run_no = 0
    /\ plan = <<>>
    /\ stage = [s \in StageIds |-> NoStage]
    /\ run_result = <<>>
    /\ lookups = EmptyBag
    /\ rejections = FALSE

InitBreaker ==
    /\ BreakerInit
    /\ now = 1
    /\ calls = [c \in CallIds |-> NoCall]
    /\ faults = 0
    /\ AgentInit
    /\ NoPipeline
    /\ ExtInit

NextBreaker == BreakerSuccess \/ BreakerFailure \/ BreakerAllow \/ Tick

SpecBreaker == InitBreaker /\ [][NextBreaker]_vars

----------------------------------------------------------------------------
(* C4: from a closed breaker, once failure_threshold failures were recorded *)
(* in a row, allow() is false at every time before recovery_time_seconds    *)
(* have passed since the failure that reached the threshold, and true at    *)
(* every time at or after recovery_time_seconds past the latest failure.    *)

RecoveryTicks == TicksPerSecond * recovery_time_seconds

C4_OpenThenRecovered ==
    consec_fail >= failure_threshold =>
        /\ (now < thresh_time + RecoveryTicks => ~allow)
        /\ (now >= last_fail_time + RecoveryTicks => allow)

C4_Witness ==
    /\ consec_fail = failure_threshold
    /\ now >= thresh_time + RecoveryTicks
    /\ allow
    /\ open_until # 0

(* C16: record_success(), in any breaker state, sets the failure count to 0  *)
(* and clears the open window, so allow() is true right after it.           *)
C16_SuccessResets ==
    [][(cb_rec'[DirectCaller].succ # cb_rec[DirectCaller].succ) =>
          (failures' = 0 /\ open_until' = 0 /\ allow')]_vars

C16_Witness ==
    /\ cb_rec[DirectCaller].succ >= 1
    /\ consec_fail = 0
    /\ failure_threshold = 1
    /\ last_fail_time # 0
    /\ now < last_fail_time + RecoveryTicks
    /\ allow

(* C17: allow() returns true if and only if no open window is set or the    *)
(* time is at or after open_until, and a call of allow() changes neither    *)
(* the failure count nor the open window.                                   *)
C17_AllowIffNoWindow ==
    [][(allow_ret' # allow_ret) =>
          /\ allow_ret'.at = now
          /\ allow_ret'.ret <=> (open_until = 0 \/ now >= open_until)
          /\ failures' = failures
          /\ open_until' = open_until]_vars

C17_Witness ==
    /\ allow_ret.at = now
    /\ allow_ret.ret
    /\ open_until # 0
    /\ now = open_until

----------------------------------------------------------------------------
(* AsyncCMRClient: _safe_get under tenacity's @retry, and the three search  *)
(* methods that decode its response.                                        *)

RECURSIVE Pow2(_)
Pow2(n) == IF n <= 0 THEN 1 ELSE 2 * Pow2(n - 1)

Min(a, b) == IF a <= b THEN a ELSE b
Max(a, b) == IF a >= b THEN a ELSE b

(* wait_exponential(multiplier=0.5, min=0.5, max=3) after attempt k, in ticks *)
WaitTicks(k) == Max(WaitMinTicks, Min(Pow2(k - 1), WaitMaxTicks))

(* tenacity after a failed attempt: stop_after_attempt(3) raises RetryError, *)
(* otherwise the call sleeps before its next attempt.                        *)
AfterFailure_OneMore(rec) ==
    IF rec.attempt > MaxAttempts
    THEN [rec EXCEPT !.pc = "raised"]
    ELSE [rec EXCEPT !.pc = "sleeping", !.wake = now + WaitTicks(rec.attempt)]

AfterFailure(rec) ==
    IF rec.attempt >= MaxAttempts
    THEN [rec EXCEPT !.pc = "raised"]
    ELSE [rec EXCEPT !.pc = "sleeping", !.wake = now + WaitTicks(rec.attempt)]

(* The start of one attempt of _safe_get, up to its first suspension: the    *)
(* breaker check, then either the RuntimeError or the request being sent.    *)
Attempted_NoCheck(rec) ==
    [rec EXCEPT !.pc = "inflight", !.http = @ + 1]

Attempted(rec) ==
    IF allow
    THEN [rec EXCEPT !.pc = "inflight", !.http = @ + 1]
    ELSE AfterFailure([rec EXCEPT !.rejected = @ + 1])

(* A call as its caller makes it: search_xxx(params). *)
NewCall(endpoint, params) ==
    [NoCall EXCEPT !.pc = "ready", !.attempt = 1, !.endpoint = endpoint, !.params = params]

(* The call up to its first suspension.  Awaited in place, its first attempt *)
(* starts in the caller's step; as a task of a gather it starts when the     *)
(* loop runs the new tasks, one after the other, before it handles any       *)
(* answer or timer that was not already due.                                 *)
StartedCall(endpoint, params) == Attempted(NewCall(endpoint, params))

(* Items of the catalog: a collection, a variable with the collections it   *)
(* is associated with, a granule of a collection.                            *)
Col(id) == [id |-> id, assoc |-> <<>>]
Var(id, assoc) == [id |-> id, assoc |-> assoc]
Gran(cid) == [id |-> <<"G", cid>>, assoc |-> <<>>]

RECURSIVE MapCol(_)
MapCol(ids) == IF ids = <<>> THEN <<>> ELSE <<Col(Head(ids))>> \o MapCol(Tail(ids))

(* The last term of a plan of MaxTerms + 1 terms; the catalog has other    *)
(* collections under it than under the first terms.                        *)
WideTerm == <<"t", MaxTerms + 1>>

(* The JSON documents (their items array) the API may answer a request with. *)
Bodies(rec) ==
    CASE rec.endpoint = "variables" -> {<<>>, <<Var("V1", <<"C1">>)>>}
      [] rec.endpoint = "granules" -> {<<>>, <<Gran(rec.params.value)>>}
      [] rec.endpoint = "collections" /\ rec.params.kind = "concept_id" ->
            {<<>>, MapCol(rec.params.value)}
      [] rec.endpoint = "collections" /\ rec.params.kind \in {"short_name", "science_keywords_h"}
            /\ rec.params.value = WideTerm ->
            {<<>>, <<Col("C3"), Col("C4"), Col("C1")>>}
      [] OTHER -> {<<>>, <<Col("C2"), Col("C1")>>}

HttpOutcomes == {"2xx", "status", "transport"}

(* The rest of an attempt of _safe_get once the request has been answered,   *)
(* and of search_xxx (resp.json()) when _safe_get returned.                  *)
SafeGetResponse_NoStatusCheck(c, out, body) ==
    IF out # "transport"
    THEN /\ record_success(c)
         /\ calls' = [calls EXCEPT ![c] =
                [@ EXCEPT !.pc = "returned", !.ok = @ + (IF out = "2xx" THEN 1 ELSE 0),
                          !.err = @ + (IF out = "2xx" THEN 0 ELSE 1), !.result = body]]
         /\ faults' = faults + (IF out = "2xx" THEN 0 ELSE 1)
    ELSE /\ record_failure(c)
         /\ calls' = [calls EXCEPT ![c] = AfterFailure([@ EXCEPT !.err = @ + 1])]
         /\ faults' = faults + 1

SafeGetResponse(c, out, body) ==
    IF out = "2xx"
    THEN /\ record_success(c)
         /\ calls' = [calls EXCEPT ![c] =
                [@ EXCEPT !.pc = "returned", !.ok = @ + 1, !.result = body]]
         /\ faults' = faults
    ELSE /\ record_failure(c)
         /\ calls' = [calls EXCEPT ![c] = AfterFailure([@ EXCEPT !.err = @ + 1])]
         /\ faults' = faults + 1

(* The backoff sleep is over: the next attempt starts. *)
Wake(c) ==
    /\ calls[c].pc = "sleeping"
    /\ now >= calls[c].wake
    /\ calls' = [calls EXCEPT ![c] = Attempted([@ EXCEPT !.attempt = @ + 1, !.wake = 0])]
    /\ UNCHANGED <<breakerVars, now, faults, agentVars, pipeVars, extVars>>

(* The API answers a request that is in flight. *)
HttpRespond(c) ==
    /\ calls[c].pc = "inflight"
    /\ \E out \in HttpOutcomes :
          IF out = "2xx"
          THEN \E body \in Bodies(calls[c]) : SafeGetResponse(c, out, body)
          ELSE SafeGetResponse(c, out, <<>>)
    /\ UNCHANGED <<now, historyVars, agentVars, pipeVars, extVars>>

----------------------------------------------------------------------------
(* The client driven by concurrent callers that make up to NCalls search     *)
(* calls, each awaiting its call.                                            *)

CallAwaited(c) ==
    /\ calls[c].pc = "unused"
    /\ calls' = [calls EXCEPT ![c] = StartedCall(EndpointOf(c), [kind |-> "keyword", value |-> "q"])]
    /\ UNCHANGED <<breakerVars, now, faults, agentVars, pipeVars, extVars>>

InitClient ==
    /\ BreakerInit
    /\ now = 1
    /\ calls = [c \in CallIds |-> NoCall]
    /\ faults = 0
    /\ AgentInit
    /\ NoPipeline
    /\ ExtInit

NextClient ==
    \/ \E c \in ClientCallIds : CallAwaited(c)
    \/ \E c \in ClientCallIds : Wake(c)
    \/ \E c \in ClientCallIds : HttpRespond(c)
    \/ Tick

SpecClient == InitClient /\ [][NextClient]_vars

----------------------------------------------------------------------------
(* C5: an attempt that starts while the breaker does not allow requests      *)
(* fails at once: it sends no HTTP request, and the breaker's failure count  *)
(* and open window (and what was recorded with it) stay as they were.  An    *)
(* attempt of call c starts in a step when the call is made and awaited, or  *)
(* when its backoff sleep ends.                                              *)
C5_RejectedAttemptTouchesNothing ==
    [][\A c \in CallIds :
          LET AttemptBegins ==
                /\ calls[c].pc \in {"unused", "sleeping"}
                /\ calls'[c].pc \in {"inflight", "sleeping", "raised"}
                /\ calls'[c] # calls[c]
          IN
          (AttemptBegins /\ ~allow) =>
              /\ calls'[c].http = calls[c].http
              /\ calls'[c].rejected = calls[c].rejected + 1
              /\ calls'[c].pc \in {"sleeping", "raised"}
              /\ failures' = failures
              /\ open_until' = open_until
              /\ cb_rec' = cb_rec]_vars

C5_Witness ==
    \E c \in CallIds : calls[c].rejected >= 1 /\ calls[c].http = 0 /\ ~allow

(* C6: a search call makes at most 3 attempts, each either sent or rejected  *)
(* by the open breaker; it returns the document of its first 2xx answer, or  *)
(* raises RetryError once 3 attempts have failed; three rejected attempts    *)
(* end the call in RetryError with no HTTP request sent.                     *)
C6_AtMostThreeAttempts ==
    \A c \in CallIds :
        LET r == calls[c] IN
        /\ r.attempt <= 3
        /\ r.pc # "unused" =>
              r.attempt = r.http + r.rejected + (IF r.pc = "ready" THEN 1 ELSE 0)
        /\ r.pc = "sleeping" => r.attempt < 3 /\ r.ok = 0
        /\ r.pc = "returned" =>
              /\ r.ok = 1
              /\ r.err + r.rejected = r.attempt - 1
              /\ r.result \in Bodies(r)
        /\ r.pc = "raised" =>
              /\ r.attempt = 3
              /\ r.ok = 0
              /\ r.err + r.rejected = 3
              /\ (r.rejected = 3 => r.http = 0)

C6_Witness ==
    \E c \in CallIds :
        calls[c].pc = "raised" /\ calls[c].rejected = 3 /\ calls[c].http = 0

(* C7: every attempt that sent an HTTP request has recorded exactly one      *)
(* breaker outcome when it ends: record_failure for a transport error or a   *)
(* non-2xx status, record_success for a 2xx answer, which ends the call.     *)
C7_OneBreakerOutcomePerRequest ==
    \A c \in ClientCallIds :
        LET r == calls[c] IN
        /\ cb_rec[c].succ = r.ok
        /\ cb_rec[c].fail = r.err
        /\ r.http = r.ok + r.err + (IF r.pc = "inflight" THEN 1 ELSE 0)
        /\ r.ok > 0 => r.pc = "returned"

C7_Witness ==
    \E c, d \in CallIds :
        /\ calls[c].pc = "returned" /\ calls[c].err = 1
        /\ calls[d].pc = "raised" /\ calls[d].err = 3

----------------------------------------------------------------------------
(* CMRAgent.run with a staged plan: run_stage, one task per stage.           *)

Finished(c) == calls[c].pc \in {"returned", "raised"}
Raised(c) == calls[c].pc = "raised"
Items(c) == IF calls[c].pc = "returned" THEN calls[c].result ELSE <<>>

(* What a failed search call raises: tenacity's RetryError (the retry        *)
(* decorator does not reraise), whose text names only the wrapped future.    *)
ExcOf(c) == [cls |-> "RetryError", mentions_circuit |-> FALSE]

(* isinstance(res, RuntimeError) and 'circuit' in str(res).lower() *)
TripsFlag(exc) == exc.cls = "RuntimeError" /\ exc.mentions_circuit

RECURSIVE Flatten(_)
Flatten(ss) == IF ss = <<>> THEN <<>> ELSE Head(ss) \o Flatten(Tail(ss))

InSeq(x, seq) == \E i \in 1..Len(seq) : seq[i] = x

(* Keep the first item of every id, in order. *)
RECURSIVE UniqueById(_, _)
UniqueById(items, seen) ==
    IF items = <<>> THEN <<>>
    ELSE IF Head(items).id \in seen THEN UniqueById(Tail(items), seen)
    ELSE <<Head(items)>> \o UniqueById(Tail(items), seen \cup {Head(items).id})

RECURSIVE Unique(_, _)
Unique(xs, seen) ==
    IF xs = <<>> THEN <<>>
    ELSE IF Head(xs) \in seen THEN Unique(Tail(xs), seen)
    ELSE <<Head(xs)>> \o Unique(Tail(xs), seen \cup {Head(xs)})

Take(seq, n) == SubSeq(seq, 1, Min(n, Len(seq)))

(* stage.get("variable_terms", []) or [q] *)
VariableTerms(st) == IF st.variable_terms = <<>> THEN <<st.query>> ELSE st.variable_terms

TermsOf(s) == VariableTerms(plan[s])
NExtra(s) == Min(Len(TermsOf(s)), TermLimit)

VarCalls(s) == [i \in 1..Len(TermsOf(s)) |-> <<s, "var", i>>]
ExtraCalls(s) == [i \in 1..NExtra(s) |-> <<s, "short", i>>]
                    \o [i \in 1..NExtra(s) |-> <<s, "sci", i>>]
GranCalls(s) == [j \in 1..Min(Len(stage[s].merged), GranuleLimit) |-> <<s, "gran", j>>]

AllFinished(cs) == \A i \in 1..Len(cs) : Finished(cs[i])
AnyTrips(cs) == \E i \in 1..Len(cs) : Raised(cs[i]) /\ TripsFlag(ExcOf(cs[i]))
ItemsOfAll(cs) == Flatten([i \in 1..Len(cs) |-> Items(cs[i])])

(* related_collection_ids_unique *)
RelatedIds(vs) == Unique(Flatten([i \in 1..Len(vs) |-> vs[i].assoc]), {})

(* The awaited calls are over and their results taken: their records go.     *)
Consumed(cs, done) ==
    [c \in CallIds |-> IF InSeq(c, done) THEN NoCall ELSE cs[c]]

AnyRejected(cs) == \E i \in 1..Len(cs) : calls[cs[i]].rejected > 0

KeywordParams(s) == [kind |-> "keyword", value |-> plan[s].query]

(* The plans: the stages of a plan search the same query and terms            *)
(* (planning_agent.py); a stage without variable_terms has <<>>.             *)
TermList(k) == [i \in 1..k |-> <<"t", i>>]
Stages == {[query |-> <<"q">>, variable_terms |-> TermList(k)] : k \in 0..MaxTerms}
Plans == {[i \in 1..n |-> st] : n \in 1..MaxStages, st \in Stages}
OneStagePlans == {p \in Plans : Len(p) = 1}

StageIdle(s) == stage[s].pc \in {"none", "done", "raised"}

(* run(): asyncio.gather over run_stage(st) for each stage creates the tasks *)
RunStart(plans) ==
    /\ run_pc \in {"idle", "returned", "raised"}
    /\ \A s \in StageIds : StageIdle(s)
    /\ run_no < MaxRuns
    /\ \E p \in plans :
          /\ plan' = p
          /\ stage' = [s \in StageIds |->
                         IF s <= Len(p) THEN [NoStage EXCEPT !.pc = "new"] ELSE NoStage]
    /\ run_pc' = "running"
    /\ run_no' = run_no + 1
    /\ run_result' = <<>>
    /\ rejections' = FALSE
    /\ faults' = 0
    /\ UNCHANGED <<pipeVars, extVars, breakerVars, now, calls, collection_cache, circuit_tripped, lookups>>

(* run_stage up to the gather of the variable searches (lines 101-118) *)
StageStart(s) ==
    /\ s \in 1..Len(plan)
    /\ stage[s].pc = "new"
    /\ calls' = [c \in CallIds |->
                   IF c[1] = s /\ c[2] = "var" /\ c[3] <= Len(TermsOf(s))
                   THEN StartedCall("variables", [kind |-> "keyword", value |-> TermsOf(s)[c[3]]])
                   ELSE calls[c]]
    /\ stage' = [stage EXCEPT ![s].pc = "vars"]
    /\ UNCHANGED <<pipeVars, extVars, breakerVars, now, faults, collection_cache, circuit_tripped, run_pc, run_no,
                   plan, run_result, lookups, rejections>>

(* The keyword collection search is awaited (line 194). *)
AwaitKeyword(cs, s) ==
    [cs EXCEPT ![<<s, "kw", 1>>] = StartedCall("collections", KeywordParams(s))]

(* run_stage from the variable results to the next await: the related ids,   *)
(* the cache partition and the batch lookup of the missing ids (lines        *)
(* 119-177), or, with nothing missing, on to the keyword search (line 194).  *)
StageAfterVariables(s) ==
    /\ s \in 1..Len(plan)
    /\ stage[s].pc = "vars"
    /\ AllFinished(VarCalls(s))
    /\ LET var_items == ItemsOfAll(VarCalls(s))
           related == RelatedIds(var_items)
           done == Consumed(calls, VarCalls(s))
           cached == SelectSeq(related, LAMBDA cid : cid \in collection_cache)
           missing == SelectSeq(related, LAMBDA cid : cid \notin collection_cache)
       IN /\ circuit_tripped' = (circuit_tripped \/ AnyTrips(VarCalls(s)))
          /\ IF missing # <<>>
             THEN /\ calls' = [done EXCEPT ![<<s, "id", 1>>] =
                        StartedCall("collections",
                            [kind |-> "concept_id", value |-> Take(missing, BatchLimit)])]
                  /\ lookups' = lookups (+) SetToBag({Take(missing, BatchLimit)})
                  /\ stage' = [stage EXCEPT ![s] = [@ EXCEPT !.pc = "idlookup",
                        !.var_items = var_items, !.related = related,
                        !.cached = MapCol(cached), !.missing = missing]]
             ELSE /\ calls' = AwaitKeyword(done, s)
                  /\ lookups' = lookups
                  /\ stage' = [stage EXCEPT ![s] = [@ EXCEPT !.pc = "kw",
                        !.var_items = var_items, !.related = related,
                        !.cached = MapCol(cached), !.missing = missing]]
    /\ rejections' = (rejections \/ AnyRejected(VarCalls(s)))
    /\ UNCHANGED <<pipeVars, extVars, breakerVars, now, faults, collection_cache, run_pc, run_no, plan, run_result>>

(* run_stage after the batch lookup: fill the cache, or swallow the error    *)
(* (lines 178-185); then the keyword search is awaited (line 194).           *)
StageAfterIdLookup(s) ==
    /\ s \in 1..Len(plan)
    /\ stage[s].pc = "idlookup"
    /\ Finished(<<s, "id", 1>>)
    /\ LET c == <<s, "id", 1>>
           got == Items(c)
       IN /\ collection_cache' = collection_cache \cup {got[i].id : i \in 1..Len(got)}
          /\ circuit_tripped' = (circuit_tripped \/ (Raised(c) /\ TripsFlag(ExcOf(c))))
          /\ stage' = [stage EXCEPT ![s] = [@ EXCEPT !.pc = "kw", !.by_id = got]]
    /\ calls' = AwaitKeyword(Consumed(calls, <<<<s, "id", 1>>>>), s)
    /\ rejections' = (rejections \/ AnyRejected(<<<<s, "id", 1>>>>))
    /\ UNCHANGED <<pipeVars, extVars, breakerVars, now, faults, run_pc, run_no, plan, run_result, lookups>>

(* run_stage after the keyword search (lines 194-203): its error leaves      *)
(* run_stage; otherwise the short-name and science-keyword searches are      *)
(* gathered.                                                                 *)
StageAfterKeyword(s) ==
    /\ s \in 1..Len(plan)
    /\ stage[s].pc = "kw"
    /\ Finished(<<s, "kw", 1>>)
    /\ IF Raised(<<s, "kw", 1>>)
       THEN /\ stage' = [stage EXCEPT ![s].pc = "raised"]
            /\ calls' = Consumed(calls, <<<<s, "kw", 1>>>>)
       ELSE /\ stage' = [stage EXCEPT ![s] = [@ EXCEPT !.pc = "extra",
                            !.kw_cols = Items(<<s, "kw", 1>>)]]
            /\ calls' = [c \in CallIds |->
                   IF c[1] = s /\ c[2] \in {"short", "sci"} /\ c[3] <= NExtra(s)
                   THEN StartedCall("collections",
                            [kind |-> IF c[2] = "short" THEN "short_name"
                                      ELSE "science_keywords_h",
                             value |-> TermsOf(s)[c[3]]])
                   ELSE IF c = <<s, "kw", 1>> THEN NoCall ELSE calls[c]]
    /\ rejections' = (rejections \/ AnyRejected(<<<<s, "kw", 1>>>>))
    /\ UNCHANGED <<pipeVars, extVars, breakerVars, now, faults, collection_cache, circuit_tripped, run_pc, run_no,
                   plan, run_result, lookups>>

(* The merge with the batch results put before the keyword results. *)
MergedCollections_IdsFirst(s) ==
    LET extras == ExtraCalls(s)
        results_list ==
            <<stage[s].by_id>>
            \o <<stage[s].kw_cols>>
            \o [i \in 1..Len(extras) |-> Items(extras[i])]
            \o (IF stage[s].cached # <<>> THEN <<stage[s].cached>> ELSE <<>>)
    IN UniqueById(Flatten(results_list), {})

(* results_list and the merge by concept-id (lines 204-224) *)
MergedCollections(s) ==
    LET extras == ExtraCalls(s)
        results_list ==
            <<stage[s].kw_cols>>
            \o [i \in 1..Len(extras) |-> Items(extras[i])]
            \o <<stage[s].by_id>>
            \o (IF stage[s].cached # <<>> THEN <<stage[s].cached>> ELSE <<>>)
    IN UniqueById(Flatten(results_list), {})

StageOutput(s, merged, granules) ==
    [query |-> plan[s].query,
     variables |-> stage[s].var_items,
     collections |-> merged,
     granules |-> granules,
     related_collection_ids |-> stage[s].related]

(* fetch_granules_for_collection: gparams (lines 227-232) *)
GranuleParams(collection) ==
    [kind |-> "collection_concept_id", value |-> collection.id, page_size |-> GranulePageSize]

(* The stage with a granule search for one more collection than the limit. *)
StageAfterExtra_OneMore(s) ==
    /\ s \in 1..Len(plan)
    /\ stage[s].pc = "extra"
    /\ AllFinished(ExtraCalls(s))
    /\ LET merged == MergedCollections(s)
       IN /\ circuit_tripped' = (circuit_tripped \/ AnyTrips(ExtraCalls(s)))
          /\ IF merged = <<>>
             THEN /\ stage' = [stage EXCEPT ![s] = [@ EXCEPT !.pc = "done",
                        !.merged = merged, !.out = StageOutput(s, merged, <<>>)]]
                  /\ calls' = Consumed(calls, ExtraCalls(s))
             ELSE /\ stage' = [stage EXCEPT ![s] = [@ EXCEPT !.pc = "granules",
                        !.merged = merged]]
                  /\ calls' = [c \in CallIds |->
                        IF c[1] = s /\ c[2] = "gran" /\ c[3] <= Min(Len(merged), GranuleLimit + 1)
                        THEN StartedCall("granules", GranuleParams(merged[c[3]]))
                        ELSE IF InSeq(c, ExtraCalls(s)) THEN NoCall ELSE calls[c]]
    /\ rejections' = (rejections \/ AnyRejected(ExtraCalls(s)))
    /\ UNCHANGED <<pipeVars, extVars, breakerVars, now, faults, collection_cache, run_pc, run_no, plan, run_result,
                   lookups>>

(* run_stage after the extra collection searches: merge, then gather the     *)
(* granule searches of the first 3 merged collections (lines 204-242).       *)
StageAfterExtra(s) ==
    /\ s \in 1..Len(plan)
    /\ stage[s].pc = "extra"
    /\ AllFinished(ExtraCalls(s))
    /\ LET merged == MergedCollections(s)
       IN /\ circuit_tripped' = (circuit_tripped \/ AnyTrips(ExtraCalls(s)))
          /\ IF merged = <<>>
             THEN /\ stage' = [stage EXCEPT ![s] = [@ EXCEPT !.pc = "done",
                        !.merged = merged, !.out = StageOutput(s, merged, <<>>)]]
                  /\ calls' = Consumed(calls, ExtraCalls(s))
             ELSE /\ stage' = [stage EXCEPT ![s] = [@ EXCEPT !.pc = "granules",
                        !.merged = merged]]
                  /\ calls' = [c \in CallIds |->
                        IF c[1] = s /\ c[2] = "gran" /\ c[3] <= Min(Len(merged), GranuleLimit)
                        THEN StartedCall("granules", GranuleParams(merged[c[3]]))
                        ELSE IF InSeq(c, ExtraCalls(s)) THEN NoCall ELSE calls[c]]
    /\ rejections' = (rejections \/ AnyRejected(ExtraCalls(s)))
    /\ UNCHANGED <<pipeVars, extVars, breakerVars, now, faults, collection_cache, run_pc, run_no, plan, run_result,
                   lookups>>

(* run_stage after the granule searches: the stage output (lines 244-259) *)
StageAfterGranules(s) ==
    /\ s \in 1..Len(plan)
    /\ stage[s].pc = "granules"
    /\ AllFinished(GranCalls(s))
    /\ circuit_tripped' = (circuit_tripped \/ AnyTrips(GranCalls(s)))
    /\ stage' = [stage EXCEPT ![s] = [@ EXCEPT !.pc = "done",
                    !.out = StageOutput(s, stage[s].merged, ItemsOfAll(GranCalls(s)))]]
    /\ calls' = Consumed(calls, GranCalls(s))
    /\ rejections' = (rejections \/ AnyRejected(GranCalls(s)))
    /\ UNCHANGED <<pipeVars, extVars, breakerVars, now, faults, collection_cache, run_pc, run_no, plan,
                   run_result, lookups>>

(* The gather of the stages with the outputs listed last stage first. *)
RunReturn_Reversed ==
    /\ run_pc = "running"
    /\ \A s \in 1..Len(plan) : stage[s].pc = "done"
    /\ run_pc' = "returned"
    /\ run_result' = [searches |-> [s \in 1..Len(plan) |-> stage[Len(plan) + 1 - s].out],
                      has_flag |-> FALSE, flag |-> FALSE]
    /\ UNCHANGED <<pipeVars, extVars, breakerVars, now, clientVars, collection_cache, circuit_tripped,
                   run_no, plan, stage, lookups, rejections>>

(* The gather of the stages (lines 261-262): all done, run returns *)
RunReturn ==
    /\ run_pc = "running"
    /\ \A s \in 1..Len(plan) : stage[s].pc = "done"
    /\ run_pc' = "returned"
    /\ run_result' = [searches |-> [s \in 1..Len(plan) |-> stage[s].out],
                      has_flag |-> FALSE, flag |-> FALSE]
    /\ UNCHANGED <<pipeVars, extVars, breakerVars, now, clientVars, collection_cache, circuit_tripped,
                   run_no, plan, stage, lookups, rejections>>

(* The gather of the stages: the first error of a stage leaves run at once,  *)
(* the other stage tasks keep running.                                       *)
RunRaise ==
    /\ run_pc = "running"
    /\ \E s \in 1..Len(plan) : stage[s].pc = "raised"
    /\ run_pc' = "raised"
    /\ UNCHANGED <<pipeVars, extVars, breakerVars, now, clientVars, collection_cache, circuit_tripped,
                   run_no, plan, stage, run_result, lookups, rejections>>

(* The program reads the clock in allow(), against an open window, and in    *)
(* its backoff sleeps: with neither pending, the time that passes changes    *)
(* nothing it can observe.                                                   *)
TimerPending == open_until # 0 \/ \E c \in AgentCallIds : calls[c].pc = "sleeping"

(* One agent given plans of one stage, against an API that fails up to       *)
(* MaxFaults requests of a run.                                              *)
InitAgent ==
    /\ BreakerInit
    /\ now = 1
    /\ calls = [c \in CallIds |-> NoCall]
    /\ faults = 0
    /\ AgentInit
    /\ NoPipeline
    /\ ExtInit

NextAgent ==
    \/ RunStart(OneStagePlans)
    \/ \E s \in StageIds : StageStart(s)
    \/ \E s \in StageIds : StageAfterVariables(s)
    \/ \E s \in StageIds : StageAfterIdLookup(s)
    \/ \E s \in StageIds : StageAfterKeyword(s)
    \/ \E s \in StageIds : StageAfterExtra(s)
    \/ \E s \in StageIds : StageAfterGranules(s)
    \/ RunReturn
    \/ RunRaise
    \/ \E c \in AgentCallIds : Wake(c)
    \/ \E c \in AgentCallIds : HttpRespond(c) /\ faults' <= MaxFaults
    \/ (TimerPending /\ Tick)

SpecAgent == InitAgent /\ [][NextAgent]_vars

----------------------------------------------------------------------------
(* One agent given plans of up to MaxStages stages, which run concurrently,  *)
(* against an API that answers every request with a document: no call is     *)
(* retried or rejected, so no timer is ever pending.                         *)
InitStages ==
    /\ BreakerInit
    /\ failure_threshold = MaxThreshold
    /\ recovery_time_seconds = MaxRecovery
    /\ now = 1
    /\ calls = [c \in CallIds |-> NoCall]
    /\ faults = 0
    /\ AgentInit
    /\ NoPipeline
    /\ ExtInit

NextStages ==
    \/ RunStart(Plans)
    \/ \E s \in StageIds : StageStart(s)
    \/ \E s \in StageIds : StageAfterVariables(s)
    \/ \E s \in StageIds : StageAfterIdLookup(s)
    \/ \E s \in StageIds : StageAfterKeyword(s)
    \/ \E s \in StageIds : StageAfterExtra(s)
    \/ \E s \in StageIds : StageAfterGranules(s)
    \/ RunReturn
    \/ \E c \in AgentCallIds : HttpRespond(c) /\ faults' = 0

SpecStages == InitStages /\ [][NextStages]_vars

----------------------------------------------------------------------------
(* C1: when a branch of a stage's fan-out fails, the stage still ends with   *)
(* an output, which holds what the sibling branches returned: a stage whose  *)
(* variable searches found variables ends with an output that holds them.    *)
C1_SiblingResultsKept ==
    \A s \in StageIds :
        (stage[s].pc \in {"done", "raised"} /\ stage[s].var_items # <<>>) =>
            /\ stage[s].pc = "done"
            /\ stage[s].out.variables = stage[s].var_items

(* C2: whatever the search calls do, no exception leaves CMRAgent.run: a     *)
(* call that exhausted its retries or met the open breaker is a marker in    *)
(* the results.                                                              *)
C2_NoExceptionLeavesRun == run_pc # "raised"

(* cmr_step: res.get('circuit_breaker_tripped', False) *)
ResponseFlag(res) == res.has_flag /\ res.flag

(* C3: when a search call of the run was rejected by the open breaker, the   *)
(* circuit_breaker_tripped flag taken from what the run returned is true.    *)
C3_RejectionSetsFlag ==
    (run_pc = "returned" /\ rejections) => ResponseFlag(run_result)

(* C8: over the runs of one agent, the concept-id batch lookup is issued at  *)
(* most once for each id list.                                               *)
C8_OneLookupPerIdSet ==
    \A ids \in BagToSet(lookups) : CopiesIn(ids, lookups) <= 1

----------------------------------------------------------------------------
(* cmr_step: each invocation creates a CMRAgent (with its own client,        *)
(* breaker and collection cache), awaits run on it and closes it in a        *)
(* finally block.  Invocations follow one another; a new one is taken up     *)
(* here once the stage tasks of the previous one have ended.  SpecStep is    *)
(* one invocation with a plan whose stages run concurrently, against an API  *)
(* that fails up to MaxFaults requests.                                      *)

(* AsyncCMRClient.close: the HTTP client is closed. *)
close == closed' = TRUE

(* agent = CMRAgent(), then agent.run up to the gather of the stages. *)
cmr_step_enter(plans) ==
    /\ step_pc \in {"idle", "returned", "raised"}
    /\ \A s \in StageIds : StageIdle(s)
    /\ \A c \in AgentCallIds : calls[c].pc = "unused"
    /\ run_no < MaxRuns
    /\ \E p \in plans :
          /\ plan' = p
          /\ stage' = [s \in StageIds |->
                         IF s <= Len(p) THEN [NoStage EXCEPT !.pc = "new"] ELSE NoStage]
    /\ collection_cache' = {}
    /\ circuit_tripped' = FALSE
    /\ failures' = 0
    /\ open_until' = 0
    /\ closed' = FALSE
    /\ step_pc' = "running"
    /\ run_pc' = "running"
    /\ run_no' = run_no + 1
    /\ run_result' = <<>>
    /\ rejections' = FALSE
    /\ faults' = 0
    /\ seen_ids' = seen_ids \cup collection_cache
    /\ UNCHANGED <<failure_threshold, recovery_time_seconds, cb_rec, historyVars, now, calls,
                   lookups, pipeVars, appVars>>

(* run returned: the results are stored, the finally block closes the agent. *)
cmr_step_return ==
    /\ step_pc = "running"
    /\ run_pc = "running"
    /\ \A s \in 1..Len(plan) : stage[s].pc = "done"
    /\ run_pc' = "returned"
    /\ run_result' = [searches |-> [s \in 1..Len(plan) |-> stage[s].out],
                      has_flag |-> FALSE, flag |-> FALSE]
    /\ close
    /\ step_pc' = "returned"
    /\ UNCHANGED <<pipeVars, breakerVars, now, clientVars, collection_cache, circuit_tripped,
                   run_no, plan, stage, lookups, rejections, seen_ids, appVars>>

(* run raised the first error of a stage: the finally block closes the       *)
(* agent and the error leaves cmr_step; the other stage tasks keep running.  *)
cmr_step_raise ==
    /\ step_pc = "running"
    /\ run_pc = "running"
    /\ \E s \in 1..Len(plan) : stage[s].pc = "raised"
    /\ run_pc' = "raised"
    /\ close
    /\ step_pc' = "raised"
    /\ UNCHANGED <<pipeVars, breakerVars, now, clientVars, collection_cache, circuit_tripped,
                   run_no, plan, stage, run_result, lookups, rejections, seen_ids, appVars>>

(* A request on the closed HTTP client fails with an error, which _safe_get  *)
(* handles as it does any other: record_failure, then the retry policy.      *)
ClosedClientRefuses(c) ==
    /\ closed
    /\ calls[c].pc = "inflight"
    /\ record_failure(c)
    /\ calls' = [calls EXCEPT ![c] = AfterFailure([@ EXCEPT !.err = @ + 1])]
    /\ UNCHANGED <<now, faults, historyVars, agentVars, pipeVars, extVars>>

(* The catalog holds what is asked for: a 2xx answer carries items. *)
CatalogAnswers(c) == calls'[c].pc = "returned" => calls'[c].result # <<>>

InitStep ==
    /\ BreakerInit
    /\ failure_threshold = MaxThreshold
    /\ recovery_time_seconds = MaxRecovery
    /\ now = 1
    /\ calls = [c \in CallIds |-> NoCall]
    /\ faults = 0
    /\ AgentInit
    /\ NoPipeline
    /\ ExtInit

NextStep ==
    \/ (run_no = 0 /\ cmr_step_enter(Plans))
    \/ \E s \in StageIds : StageStart(s)
    \/ \E s \in StageIds : StageAfterVariables(s)
    \/ \E s \in StageIds : StageAfterIdLookup(s)
    \/ \E s \in StageIds : StageAfterKeyword(s)
    \/ \E s \in StageIds : StageAfterExtra(s)
    \/ \E s \in StageIds : StageAfterGranules(s)
    \/ cmr_step_return
    \/ cmr_step_raise
    \/ \E c \in AgentCallIds : Wake(c)
    \/ \E c \in AgentCallIds :
          ~closed /\ HttpRespond(c) /\ faults' <= MaxFaults /\ CatalogAnswers(c)
    \/ \E c \in AgentCallIds : ClosedClientRefuses(c)
    \/ (TimerPending /\ Tick)

SpecStep == InitStep /\ [][NextStep]_vars

(* C11: the client of every agent cmr_step creates is closed when cmr_step   *)
(* exits, by return or by error, and no search call is issued on it after    *)
(* the close.                                                                *)
C11_ClosedThenUnused ==
    [][/\ (step_pc' \in {"returned", "raised"} => closed')
       /\ (closed /\ closed') =>
             \A c \in AgentCallIds : calls[c].pc = "unused" => calls'[c].pc = "unused"]_vars

----------------------------------------------------------------------------
(* Pipeline requests served one after the other by one process: each runs    *)
(* cmr_step with a plan of one stage, against an API that answers every      *)
(* request with a document.                                                  *)
NextRequests ==
    \/ cmr_step_enter(OneStagePlans)
    \/ \E s \in StageIds : StageStart(s)
    \/ \E s \in StageIds : StageAfterVariables(s)
    \/ \E s \in StageIds : StageAfterIdLookup(s)
    \/ \E s \in StageIds : StageAfterKeyword(s)
    \/ \E s \in StageIds : StageAfterExtra(s)
    \/ \E s \in StageIds : StageAfterGranules(s)
    \/ cmr_step_return
    \/ \E c \in AgentCallIds : HttpRespond(c) /\ faults' = 0

SpecRequests == InitStep /\ [][NextRequests]_vars

(* C19: a collection fetched by concept id during one pipeline request is    *)
(* not fetched again by a later request of the same process: no batch lookup *)
(* asks for a concept id that the agent of an earlier request had cached.    *)
C19_CacheOutlivesRequest ==
    [][\A s \in StageIds :
          (stage[s].pc = "vars" /\ stage'[s].pc = "idlookup") =>
              \A i \in 1..Len(stage'[s].missing) : stage'[s].missing[i] \notin seen_ids]_vars

----------------------------------------------------------------------------
(* The pipeline: build_graph and its nodes.                                  *)

(* What the validation rules see of a query: whether it is blank, shorter    *)
(* than 8 characters, holds a banned phrase or a known region, and its       *)
(* years (none, one, two or more with the first not after the last, or with  *)
(* the first after the last).  A blank query has nothing in it; a query      *)
(* under 8 characters has no room for a banned phrase, for two years, or     *)
(* for a region name next to a year.                                         *)
Queries ==
    {q \in [blank : BOOLEAN, short : BOOLEAN, banned : BOOLEAN,
            years : {"none", "one", "ordered", "reversed"}, region : BOOLEAN] :
        /\ q.blank => (q.short /\ ~q.banned /\ q.years = "none" /\ ~q.region)
        /\ q.short => (~q.banned /\ q.years \in {"none", "one"}
                        /\ (q.region => q.years = "none"))}

(* ValidationAgent.run: feasible *)
Feasible(q) == ~q.blank /\ ~q.banned /\ q.years # "reversed" /\ q.region

(* ValidationAgent.run: reasons *)
Reasons(q) ==
    (IF q.blank THEN {"Empty query"} ELSE {})
    \cup (IF q.short THEN {"Very short query; may be ambiguous"} ELSE {})
    \cup (IF q.banned THEN {"Out-of-scope content detected"} ELSE {})
    \cup (IF q.years = "none" THEN {"No temporal bounds detected"} ELSE {})
    \cup (IF q.years = "reversed" THEN {"Start year after end year"} ELSE {})
    \cup (IF ~q.region THEN {"Region not recognized"} ELSE {})

Validation(q) == [feasible |-> Feasible(q), reasons |-> Reasons(q)]

(* A dict: a function on the keys it holds. *)
EmptyDict == <<>>
Has(d, k) == k \in DOMAIN d
Get(d, k, default) == IF k \in DOMAIN d THEN d[k] ELSE default
Put(d, k, v) == [x \in (DOMAIN d) \cup {k} |-> IF x = k THEN v ELSE d[x]]

(* PlanningAgent.run: the plan has three stages. *)
PlanStages == 3
PlannedStages == <<"collection_search", "granule_search", "variable_search">>

(* What CMRAgent.run returns for a staged plan: one entry per stage, here    *)
(* with the number of items each found.                                      *)
StagedResults ==
    {[searches |-> [i \in 1..PlanStages |-> [collections |-> m, granules |-> m,
                                             variables |-> m]]] : m \in 0..MaxFound}

RECURSIVE SumOf(_, _)
SumOf(searches, field) ==
    IF searches = <<>> THEN 0
    ELSE Head(searches)[field] + SumOf(Tail(searches), field)

(* AnalysisAgent.run *)
AnalysisSummary(cmr_results) ==
    LET searches == Get(cmr_results, "searches", <<>>)
        summary == [total_collections |-> SumOf(searches, "collections"),
                    total_granules |-> SumOf(searches, "granules"),
                    total_variables |-> SumOf(searches, "variables"),
                    queries |-> Len(searches),
                    knowledge_graph |-> SumOf(searches, "collections"),
                    dataset_relationships |-> 0,
                    results_paging |-> 1,
                    knowledge_links |-> 0,
                    data_refs |-> Min(SumOf(searches, "collections"), 2),
                    cross_collection_map |-> 0]
    IN IF searches = <<>> THEN summary
       ELSE Put(summary, "related_collections", SumOf(searches, "collections"))

Ran(n) == executed' = Append(executed, n)

start_step ==
    /\ node = "start_step"
    /\ state' = Put(Put(state, "history", 1), "run_metadata", "started_at")
    /\ Ran("start_step")
    /\ node' = "intent_step"
    /\ UNCHANGED <<user_query, search_calls, final, breakerVars, now, clientVars, agentVars, extVars>>

intent_step ==
    /\ node = "intent_step"
    /\ LET st1 == Put(Put(state, "intent", "exploratory"), "subqueries", 1)
           st2 == IF user_query.years \in {"ordered", "reversed"}
                  THEN Put(st1, "temporal", "range") ELSE st1
           st3 == IF user_query.region THEN Put(st2, "bbox", "bbox") ELSE st2
           st4 == IF Has(st3, "temporal") /\ Has(st3, "bbox") THEN st3
                  ELSE Put(st3, "assumptions", 1)
       IN state' = Put(Put(st4, "inferred_constraints", 1), "semantic_context", 1)
    /\ Ran("intent_step")
    /\ node' = "validation_step"
    /\ UNCHANGED <<user_query, search_calls, final, breakerVars, now, clientVars, agentVars, extVars>>

validation_step ==
    /\ node = "validation_step"
    /\ LET validation == Validation(user_query)
       IN state' = Put(Put(state, "validation", validation), "validated", validation.feasible)
    /\ Ran("validation_step")
    /\ node' = "planning_step"
    /\ UNCHANGED <<user_query, search_calls, final, breakerVars, now, clientVars, agentVars, extVars>>

(* build_graph: the conditional edge after planning_step *)
route_after_planning(st) ==
    IF Get(st, "validated", FALSE) THEN "cmr_step" ELSE "synthesis_step"

planning_step_EmptyPlan ==
    /\ node = "planning_step"
    /\ state' = Put(state, "plan", [stages |-> <<>>])
    /\ Ran("planning_step")
    /\ node' = route_after_planning(state')
    /\ UNCHANGED <<user_query, search_calls, final, breakerVars, now, clientVars, agentVars, extVars>>

planning_step ==
    /\ node = "planning_step"
    /\ state' = Put(state, "plan", [stages |-> PlannedStages])
    /\ Ran("planning_step")
    /\ node' = route_after_planning(state')
    /\ UNCHANGED <<user_query, search_calls, final, breakerVars, now, clientVars, agentVars, extVars>>

(* cmr_step: a fresh CMRAgent runs the plan; run returns its results, or an  *)
(* error of the keyword search leaves it (RunRaise); the agent is closed     *)
(* either way.  Every stage issues at least its variable search.             *)
cmr_step ==
    /\ node = "cmr_step"
    /\ Ran("cmr_step")
    /\ search_calls' = search_calls + Len(state["plan"].stages)
    /\ \/ \E res \in StagedResults :
             /\ state' = Put(Put(Put(state, "cmr_results", res),
                                 "cmr_queries", Get(res, "query_log", <<>>)),
                             "circuit_breaker_tripped",
                             Get(res, "circuit_breaker_tripped", FALSE))
             /\ node' = "analysis_step"
       \/ /\ state' = state
          /\ node' = "raised"
    /\ UNCHANGED <<user_query, final, breakerVars, now, clientVars, agentVars, extVars>>

analysis_step ==
    /\ node = "analysis_step"
    /\ state' = Put(state, "analysis", AnalysisSummary(Get(state, "cmr_results", EmptyDict)))
    /\ Ran("analysis_step")
    /\ node' = "synthesis_step"
    /\ UNCHANGED <<user_query, search_calls, final, breakerVars, now, clientVars, agentVars, extVars>>

synthesis_step ==
    /\ node = "synthesis_step"
    /\ state' = Put(state, "synthesis", "text")
    /\ final' = [results |-> Get(state, "analysis", EmptyDict),
                 circuit_breaker_tripped |-> Get(state, "circuit_breaker_tripped", FALSE),
                 validated |-> Get(state, "validated", FALSE),
                 plan |-> Get(state, "plan", EmptyDict),
                 synthesis |-> "text"]
    /\ Ran("synthesis_step")
    /\ node' = "END"
    /\ UNCHANGED <<user_query, search_calls, breakerVars, now, clientVars, agentVars, extVars>>

(* graph.ainvoke({'user_query': q}) *)
InitPipeline ==
    /\ BreakerInit
    /\ failure_threshold = MaxThreshold
    /\ recovery_time_seconds = MaxRecovery
    /\ now = 1
    /\ calls = [c \in CallIds |-> NoCall]
    /\ faults = 0
    /\ AgentInit
    /\ ExtInit
    /\ user_query \in Queries
    /\ node = "start_step"
    /\ state = [user_query |-> user_query]
    /\ executed = <<>>
    /\ search_calls = 0
    /\ final = <<>>

NextPipeline ==
    \/ start_step
    \/ intent_step
    \/ validation_step
    \/ planning_step
    \/ cmr_step
    \/ analysis_step
    \/ synthesis_step

SpecPipeline == InitPipeline /\ [][NextPipeline]_vars

(* C9: a run that reached the end executed start, intent, validation,        *)
(* planning, cmr if and only if the query is feasible, analysis, synthesis,  *)
(* in this order; for an infeasible query it issued no search call.          *)
C9_StagesInOrder ==
    node = "END" =>
        /\ executed =
              <<"start_step", "intent_step", "validation_step", "planning_step">>
              \o (IF Feasible(user_query) THEN <<"cmr_step">> ELSE <<>>)
              \o <<"analysis_step", "synthesis_step">>
        /\ (~Feasible(user_query) => search_calls = 0)

(* C10: a run whose validation failed ends with the empty summary of the     *)
(* analysis as its results: zero totals, no queries, and the knowledge       *)
(* graph, dataset relationships and cross-collection map present.            *)
C10_EmptySummaryWhenInfeasible ==
    (node = "END" /\ ~Feasible(user_query)) =>
        /\ InSeq("analysis_step", executed)
        /\ DOMAIN final.results = DOMAIN AnalysisSummary(EmptyDict)
        /\ final.results.total_collections = 0
        /\ final.results.queries = 0

(* C18: planning runs on every pipeline run, before the branch on the        *)
(* validation verdict is taken, so the final response of a rejected query    *)
(* holds the plan and the synthesis text.                                    *)
C18_RejectedStillPlanned ==
    /\ node \in {"cmr_step", "analysis_step", "synthesis_step", "END", "raised"} =>
          /\ Len(executed) >= 4
          /\ executed[4] = "planning_step"
          /\ \A i \in 1..3 : executed[i] \notin {"cmr_step", "analysis_step", "synthesis_step"}
    /\ (node = "END" /\ ~Feasible(user_query)) =>
          /\ Has(final, "plan")
          /\ Has(final.plan, "stages")
          /\ final.plan.stages = PlannedStages
          /\ Has(final, "synthesis")
          /\ final.synthesis = "text"

C18_Witness ==
    /\ node = "END"
    /\ user_query.banned
    /\ ~final.validated
    /\ final.plan.stages = PlannedStages

----------------------------------------------------------------------------
(* The HTTP server: the /query endpoint and the session memory SESSIONS.     *)
(* Requests are made one after the other.                                    *)

MaxRequests == 3

QueryTexts == {"first", "second"}

(* session_id: str | None.  The parameter left out is None; given, it is any *)
(* string, the empty one included.                                           *)
NoSessionId == "(None)"
SessionIds == {"", "abc", "xyz"}

(* Python truthiness of session_id: None and the empty string are falsy. *)
Truthy(sid) == sid # NoSessionId /\ sid # ""

Requests == IF asked = <<>> THEN 0 ELSE
    LET RECURSIVE Total(_)
        Total(ids) == IF ids = {} THEN 0
                      ELSE LET i == CHOOSE x \in ids : TRUE
                           IN Len(asked[i]) + Total(ids \ {i})
    IN Total(DOMAIN asked)

(* start_step on the history the endpoint passed in *)
HistoryAfterStart(history, q) == Append(history, q)

(* The /query endpoint: the graph is invoked with the remembered history;    *)
(* its result is stored under the session id and returned.  An error of the  *)
(* graph leaves the handler; start_step had then already appended the query  *)
(* to the list it was given, which may be the remembered list itself when    *)
(* the session had one.                                                      *)
query(q, sid) ==
    /\ Requests < MaxRequests
    /\ LET history == IF Truthy(sid) THEN Get(SESSIONS, sid, <<>>) ELSE <<>>
           result == [history |-> HistoryAfterStart(history, q)]
       IN \/ /\ response' = [for |-> sid, body |-> result]
             /\ SESSIONS' = IF sid # NoSessionId
                             THEN Put(SESSIONS, sid, Get(result, "history", history))
                             ELSE SESSIONS
             /\ failed' = failed
          \/ /\ response' = [for |-> sid, body |-> [error |-> 500]]
             /\ \/ SESSIONS' = SESSIONS
                \/ /\ Truthy(sid) /\ Has(SESSIONS, sid)
                   /\ SESSIONS' = Put(SESSIONS, sid, HistoryAfterStart(history, q))
             /\ failed' = failed \cup {sid}
    /\ asked' = Put(asked, sid, Append(Get(asked, sid, <<>>), q))
    /\ UNCHANGED <<baseVars, stepVars, pureVars, plainVars, overlapVars, llmVars, streamVars>>

InitServer ==
    /\ BreakerInit
    /\ failure_threshold = MaxThreshold
    /\ recovery_time_seconds = MaxRecovery
    /\ now = 1
    /\ calls = [c \in CallIds |-> NoCall]
    /\ faults = 0
    /\ AgentInit
    /\ NoPipeline
    /\ NoStep
    /\ NoServer
    /\ NoLlmAgent
    /\ NoStream
    /\ NoApply
    /\ NoPlain
    /\ NoOverlap

NextServer == \E q \in QueryTexts, sid \in SessionIds \cup {NoSessionId} : query(q, sid)

SpecServer == InitServer /\ [][NextServer]_vars

(* C12: for every session id the endpoint accepts, after n queries q1..qn    *)
(* made under it one after the other (all answered), the history of the      *)
(* n-th response is q1..qn in request order.                                 *)
C12_HistoryIsAllQueries ==
    (/\ response # <<>>
     /\ response.for \in SessionIds
     /\ response.for \notin failed) =>
        /\ Has(response.body, "history")
        /\ response.body.history = asked[response.for]

----------------------------------------------------------------------------
(* IntentAgent.run and SynthesisAgent.run over the LLMRouter: the two share  *)
(* the failover code, and differ in what they make of the model's message    *)
(* and in their fallback.                                                    *)

MaxLlmCalls == 3

(* LLMRouter.__init__: the providers configured, by the API keys set. *)
ProviderConfigs == {{}, {"primary"}, {"primary", "secondary"}}

IntentType == {"exploratory", "specific", "analytical"}

(* LLMRouter.get without the look at primary_failed *)
router_get_Unmarked(r) ==
    IF "primary" \in r.providers THEN "primary"
    ELSE IF ~r.secondary_failed /\ "secondary" \in r.providers THEN "secondary"
    ELSE "RuntimeError"

(* LLMRouter.get: the primary unless marked failed, else the secondary       *)
(* unless marked failed, else RuntimeError.                                  *)
router_get(r) ==
    IF ~r.primary_failed /\ "primary" \in r.providers THEN "primary"
    ELSE IF ~r.secondary_failed /\ "secondary" \in r.providers THEN "secondary"
    ELSE "RuntimeError"

(* LLMRouter.record_failure: `provider is self.primary`, where a provider   *)
(* that is not configured is None                                            *)
router_record_failure(r, provider) ==
    IF (provider = "primary" /\ "primary" \in r.providers)
       \/ (provider = "None" /\ "primary" \notin r.providers)
    THEN [r EXCEPT !.primary_failed = TRUE]
    ELSE IF (provider = "secondary" /\ "secondary" \in r.providers)
            \/ (provider = "None" /\ "secondary" \notin r.providers)
    THEN [r EXCEPT !.secondary_failed = TRUE]
    ELSE r

(* What the heuristic looks for in a query: analytical and specific keys. *)
LlmQueries == [analytical : BOOLEAN, specific : BOOLEAN]

(* IntentAgent.run with self.llm None: the heuristic classification. *)
Heuristic(q) ==
    IF q.analytical THEN "analytical"
    ELSE IF q.specific THEN "specific"
    ELSE "exploratory"

(* The content of a model's message: text json.loads rejects, or a JSON      *)
(* object without the keys, or one with an intent, of the three or another.  *)
Messages ==
    {[decodable |-> FALSE, data |-> EmptyDict],
     [decodable |-> TRUE, data |-> EmptyDict]}
    \cup {[decodable |-> TRUE, data |-> [intent |-> v]] :
            v \in IntentType \cup {"navigational"}}

(* IntentAgent.run, lines 67-78 *)
IntentOf(msg) ==
    IF msg.decodable /\ Has(msg.data, "intent") THEN msg.data["intent"] ELSE "exploratory"

(* What run returns from a model's message. *)
FromMessage(kind, msg) ==
    IF kind = "intent" THEN [by |-> "llm", value |-> IntentOf(msg)]
    ELSE [by |-> "llm", value |-> "content"]

(* What run returns without a model: the heuristic classification, or the    *)
(* fixed-format report of SynthesisAgent._fallback.                          *)
Fallback(kind, q) ==
    IF kind = "intent" THEN [by |-> "fallback", value |-> Heuristic(q)]
    ELSE [by |-> "fallback", value |-> "report"]

(* self.llm = None, then the fallback is returned. *)
FallBack ==
    /\ agent_llm' = "None"
    /\ llm_ret' = Fallback(agent_kind, llm_call.query)
    /\ llm_call' = [llm_call EXCEPT !.pc = "idle", !.failed = @ + 1]
    /\ llm_hist' = [llm_hist EXCEPT !.fell_back_at = IF @ = 0 THEN llm_hist.calls ELSE @]

(* run up to its first await: with no model the fallback is returned at      *)
(* once, else the model is invoked.                                          *)
agent_run_AsksRouter(q) ==
    /\ llm_call.pc = "idle"
    /\ llm_hist.calls < MaxLlmCalls
    /\ LET llm == IF agent_llm = "None" /\ router.present
                      /\ router_get(router) # "RuntimeError"
                  THEN router_get(router) ELSE agent_llm
       IN /\ agent_llm' = llm
          /\ IF llm = "None"
             THEN /\ llm_call' = [NoLlmCall EXCEPT !.query = q]
                  /\ llm_ret' = Fallback(agent_kind, q)
                  /\ llm_hist' = [llm_hist EXCEPT !.calls = @ + 1]
             ELSE /\ llm_call' = [NoLlmCall EXCEPT !.pc = "invoking", !.query = q,
                                                   !.invoked = <<llm>>]
                  /\ llm_ret' = <<>>
                  /\ llm_hist' = [llm_hist EXCEPT !.calls = @ + 1, !.invocations = @ + 1]
    /\ UNCHANGED <<agent_kind, router, baseVars, stepVars, pureVars, plainVars, overlapVars, serverVars, streamVars>>

agent_run(q) ==
    /\ llm_call.pc = "idle"
    /\ llm_hist.calls < MaxLlmCalls
    /\ IF agent_llm = "None"
       THEN /\ llm_call' = [NoLlmCall EXCEPT !.query = q]
            /\ llm_ret' = Fallback(agent_kind, q)
            /\ llm_hist' = [llm_hist EXCEPT !.calls = @ + 1]
       ELSE /\ llm_call' = [NoLlmCall EXCEPT !.pc = "invoking", !.query = q,
                                             !.invoked = <<agent_llm>>]
            /\ llm_ret' = <<>>
            /\ llm_hist' = [llm_hist EXCEPT !.calls = @ + 1, !.invocations = @ + 1]
    /\ UNCHANGED <<agent_kind, router, agent_llm, baseVars, stepVars, pureVars, plainVars, overlapVars, serverVars, streamVars>>

(* The invoked model answers. *)
ainvoke_returns ==
    /\ llm_call.pc = "invoking"
    /\ \E msg \in Messages : llm_ret' = FromMessage(agent_kind, msg)
    /\ llm_call' = [llm_call EXCEPT !.pc = "idle"]
    /\ UNCHANGED <<agent_kind, router, agent_llm, llm_hist, baseVars, stepVars, pureVars, plainVars, overlapVars, serverVars, streamVars>>

(* The invoked model raises.  On the first invocation of the call, with a    *)
(* router: the failure is recorded, the router is asked for a provider and   *)
(* that one is invoked; when the router has none, when there is no router,   *)
(* and on the second invocation, the agent falls back.                       *)
ainvoke_raises_Unrecorded ==
    /\ llm_call.pc = "invoking"
    /\ IF Len(llm_call.invoked) = 1 /\ router.present
       THEN LET next == router_get(router)
            IN /\ router' = router
               /\ IF next = "RuntimeError"
                  THEN FallBack
                  ELSE /\ agent_llm' = next
                       /\ llm_call' = [llm_call EXCEPT !.invoked = Append(@, next),
                                                       !.failed = @ + 1]
                       /\ llm_hist' = [llm_hist EXCEPT !.invocations = @ + 1]
                       /\ llm_ret' = llm_ret
       ELSE /\ router' = router
            /\ FallBack
    /\ UNCHANGED <<agent_kind, baseVars, stepVars, pureVars, plainVars, overlapVars, serverVars, streamVars>>

ainvoke_raises ==
    /\ llm_call.pc = "invoking"
    /\ IF Len(llm_call.invoked) = 1 /\ router.present
       THEN LET marked == router_record_failure(router, agent_llm)
                next == router_get(marked)
            IN /\ router' = marked
               /\ IF next = "RuntimeError"
                  THEN FallBack
                  ELSE /\ agent_llm' = next
                       /\ llm_call' = [llm_call EXCEPT !.invoked = Append(@, next),
                                                       !.failed = @ + 1]
                       /\ llm_hist' = [llm_hist EXCEPT !.invocations = @ + 1]
                       /\ llm_ret' = llm_ret
       ELSE /\ router' = router
            /\ FallBack
    /\ UNCHANGED <<agent_kind, baseVars, stepVars, pureVars, plainVars, overlapVars, serverVars, streamVars>>

(* The agent as its constructor leaves it (a router with the providers that  *)
(* are configured and self.llm = router.get(), or neither when the router    *)
(* cannot be had), or with a model put in its place as the tests do.         *)
InitLlm ==
    /\ BreakerInit
    /\ failure_threshold = MaxThreshold
    /\ recovery_time_seconds = MaxRecovery
    /\ now = 1
    /\ calls = [c \in CallIds |-> NoCall]
    /\ faults = 0
    /\ AgentInit
    /\ NoPipeline
    /\ NoStep
    /\ NoServer
    /\ NoStream
    /\ NoApply
    /\ NoPlain
    /\ NoOverlap
    /\ agent_kind \in {"intent", "synthesis"}
    /\ \E present \in BOOLEAN, ps \in ProviderConfigs :
          /\ router = [present |-> present, providers |-> IF present THEN ps ELSE {},
                       primary_failed |-> FALSE, secondary_failed |-> FALSE]
          /\ agent_llm \in
                {"injected"} \cup
                {IF present /\ router_get(router) # "RuntimeError"
                 THEN router_get(router) ELSE "None"}
    /\ llm_call = NoLlmCall
    /\ llm_ret = <<>>
    /\ llm_hist = [calls |-> 0, invocations |-> 0, fell_back_at |-> 0]

NextLlm ==
    \/ \E q \in LlmQueries : agent_run(q)
    \/ ainvoke_returns
    \/ ainvoke_raises

SpecLlm == InitLlm /\ [][NextLlm]_vars

----------------------------------------------------------------------------
(* run_query_stream: the generator behind the /stream endpoint.  Each step   *)
(* below runs it from one suspension to the next; what it awaits (the        *)
(* agents, the client) may return or raise.  The consumer takes the records  *)
(* one by one and may close the generator at any yield.                      *)

MaxStreams == 2
MaxSubqueries == 2

(* emit: the object as an update event, json.dumps of it as data, or str of  *)
(* it when json.dumps raises.                                                *)
emit_NoDumps(obj) ==
    [event |-> "update", phase |-> obj.phase, data |-> "str"]

emit(obj) ==
    [event |-> "update", phase |-> obj.phase,
     data |-> IF obj.serialisable THEN "json" ELSE "str"]

ErrorEvent == [event |-> "error", phase |-> "", data |-> "json"]
EndEvent == [event |-> "end", phase |-> "", data |-> "json"]

(* finally: if session_id is not None: SESSIONS[session_id] = history *)
SaveHistory ==
    /\ SESSIONS' = IF stream_run.sid # NoSessionId
                    THEN Put(SESSIONS, stream_run.sid, stream_run.history)
                    ELSE SESSIONS
    /\ UNCHANGED <<response, asked, failed>>

(* The call: the history is copied and the query appended; IntentAgent.run   *)
(* is awaited.                                                               *)
stream_start(q, sid) ==
    /\ stream_pc \in {"idle", "done", "closed"}
    /\ stream_no < MaxStreams
    /\ stream_no' = stream_no + 1
    /\ stream_run' = [NoRun EXCEPT !.sid = sid,
            !.history = Append(IF Truthy(sid) THEN Get(SESSIONS, sid, <<>>) ELSE <<>>, q)]
    /\ stream' = <<>>
    /\ stream_pc' = "intent"
    /\ UNCHANGED <<baseVars, stepVars, pureVars, plainVars, overlapVars, serverVars, llmVars>>

(* An exception reaches the outer handler: the error event is yielded. *)
stream_raises_NoEnd ==
    /\ stream_pc \in {"intent", "cmr", "cmr_done", "close", "analysis", "synthesis"}
    /\ stream' = Append(stream, ErrorEvent)
    /\ stream_pc' = "done"
    /\ SaveHistory
    /\ UNCHANGED <<stream_run, stream_no, baseVars, stepVars, pureVars, plainVars, overlapVars, llmVars>>

stream_raises ==
    /\ stream_pc \in {"intent", "cmr", "cmr_done", "close", "analysis", "synthesis"}
    /\ stream' = Append(stream, ErrorEvent)
    /\ stream_pc' = "error_end"
    /\ UNCHANGED <<stream_run, stream_no, baseVars, stepVars, pureVars, plainVars, overlapVars, serverVars, llmVars>>

(* The intent is returned: the first update, with the intent, the            *)
(* subqueries and the history.                                               *)
stream_intent ==
    /\ stream_pc = "intent"
    /\ \E n \in 1..MaxSubqueries : stream_run' = [stream_run EXCEPT !.n = n]
    /\ stream' = Append(stream, emit([phase |-> "intent", serialisable |-> TRUE]))
    /\ stream_pc' = "validation"
    /\ UNCHANGED <<stream_no, baseVars, stepVars, pureVars, plainVars, overlapVars, serverVars, llmVars>>

(* The validation returned or raised: an update either way.  Then the        *)
(* client is created and the searches of the first subquery are started.     *)
stream_validation ==
    /\ stream_pc = "validation"
    /\ stream' = Append(stream, emit([phase |-> "validation", serialisable |-> TRUE]))
    /\ stream_run' = [stream_run EXCEPT !.sub = 1, !.pending = {"collections", "variables"}]
    /\ stream_pc' = "cmr"
    /\ UNCHANGED <<stream_no, baseVars, stepVars, pureVars, plainVars, overlapVars, serverVars, llmVars>>

(* as_completed: one of the two searches of the subquery returned or raised, *)
(* an update either way; after the second, the next subquery is taken up.    *)
stream_task(kind) ==
    /\ stream_pc = "cmr"
    /\ kind \in stream_run.pending
    /\ stream' = Append(stream, emit([phase |-> "cmr", serialisable |-> TRUE]))
    /\ LET left == stream_run.pending \ {kind}
       IN IF left # {}
          THEN /\ stream_run' = [stream_run EXCEPT !.pending = left]
               /\ stream_pc' = "cmr"
          ELSE IF stream_run.sub < stream_run.n
          THEN /\ stream_run' = [stream_run EXCEPT !.sub = @ + 1,
                                      !.pending = {"collections", "variables"}]
               /\ stream_pc' = "cmr"
          ELSE /\ stream_run' = [stream_run EXCEPT !.pending = {}]
               /\ stream_pc' = "cmr_done"
    /\ UNCHANGED <<stream_no, baseVars, stepVars, pureVars, plainVars, overlapVars, serverVars, llmVars>>

(* The update that closes the searches. *)
stream_cmr_done ==
    /\ stream_pc = "cmr_done"
    /\ stream' = Append(stream, emit([phase |-> "cmr", serialisable |-> TRUE]))
    /\ stream_pc' = "close"
    /\ UNCHANGED <<stream_run, stream_no, baseVars, stepVars, pureVars, plainVars, overlapVars, serverVars, llmVars>>

(* finally: the client is closed; the analysis is awaited. *)
stream_close ==
    /\ stream_pc = "close"
    /\ stream_pc' = "analysis"
    /\ UNCHANGED <<stream, stream_run, stream_no, baseVars, stepVars, pureVars, plainVars, overlapVars, serverVars, llmVars>>

stream_analysis ==
    /\ stream_pc = "analysis"
    /\ \E ser \in BOOLEAN :
          stream' = Append(stream, emit([phase |-> "analysis", serialisable |-> ser]))
    /\ stream_pc' = "synthesis"
    /\ UNCHANGED <<stream_run, stream_no, baseVars, stepVars, pureVars, plainVars, overlapVars, serverVars, llmVars>>

stream_synthesis ==
    /\ stream_pc = "synthesis"
    /\ stream' = Append(stream, emit([phase |-> "synthesis", serialisable |-> TRUE]))
    /\ stream_pc' = "comparison"
    /\ UNCHANGED <<stream_run, stream_no, baseVars, stepVars, pureVars, plainVars, overlapVars, serverVars, llmVars>>

(* The recommendations were built, or building them raised: an update. *)
stream_comparison ==
    /\ stream_pc = "comparison"
    /\ stream' = Append(stream, emit([phase |-> "comparison", serialisable |-> TRUE]))
    /\ stream_pc' = "end"
    /\ UNCHANGED <<stream_run, stream_no, baseVars, stepVars, pureVars, plainVars, overlapVars, serverVars, llmVars>>

(* The end event, after the comparison or after the error event; the         *)
(* generator then finishes and its finally block stores the history.         *)
stream_end ==
    /\ stream_pc \in {"end", "error_end"}
    /\ stream' = Append(stream, EndEvent)
    /\ stream_pc' = "done"
    /\ SaveHistory
    /\ UNCHANGED <<stream_run, stream_no, baseVars, stepVars, pureVars, plainVars, overlapVars, llmVars>>

(* The consumer closes the generator while it is suspended at a yield: only  *)
(* the finally block runs.                                                   *)
stream_aclose ==
    /\ stream_pc \notin {"idle", "intent", "done", "closed"}
    /\ stream_pc' = "closed"
    /\ SaveHistory
    /\ UNCHANGED <<stream, stream_run, stream_no, baseVars, stepVars, pureVars, plainVars, overlapVars, llmVars>>

InitStream ==
    /\ BreakerInit
    /\ failure_threshold = MaxThreshold
    /\ recovery_time_seconds = MaxRecovery
    /\ now = 1
    /\ calls = [c \in CallIds |-> NoCall]
    /\ faults = 0
    /\ AgentInit
    /\ NoPipeline
    /\ ExtInit

NextStream ==
    \/ \E q \in QueryTexts, sid \in SessionIds \cup {NoSessionId} : stream_start(q, sid)
    \/ stream_intent
    \/ stream_validation
    \/ \E kind \in {"collections", "variables"} : stream_task(kind)
    \/ stream_cmr_done
    \/ stream_close
    \/ stream_analysis
    \/ stream_synthesis
    \/ stream_comparison
    \/ stream_raises
    \/ stream_end
    \/ stream_aclose

SpecStream == InitStream /\ [][NextStream]_vars

(* C13: on one call of run, a failed invocation of the model is recorded     *)
(* against the router and followed by one retry on the router's next         *)
(* available provider, so a call invokes a model at most twice; when the     *)
(* retry fails or no provider remains, the call returns the fallback.        *)
C13_OneRetryThenFallback ==
    LET invoked == llm_call.invoked
        Marked(p) == (p = "primary" /\ router.primary_failed)
                     \/ (p = "secondary" /\ router.secondary_failed)
    IN /\ Len(invoked) <= 2
       /\ llm_call.failed <= Len(invoked)
       /\ (llm_call.failed >= 1 /\ router.present
              /\ invoked[1] \in {"primary", "secondary"}) => Marked(invoked[1])
       /\ Len(invoked) = 2 =>
             /\ router.present
             /\ llm_call.failed >= 1
             /\ invoked[2] # invoked[1]
             /\ invoked[2] = router_get(router)
       /\ (llm_call.pc = "idle" /\ llm_call.failed = 1 /\ Len(invoked) = 1) =>
             (~router.present \/ router_get(router) = "RuntimeError")
       /\ (llm_call.pc = "idle" /\ llm_hist.calls > 0) =>
             IF llm_call.failed = Len(invoked)
             THEN llm_ret = Fallback(agent_kind, llm_call.query)
             ELSE llm_ret # <<>> /\ llm_ret.by = "llm"

C13_Witness ==
    /\ llm_call.pc = "idle"
    /\ llm_call.invoked = <<"primary", "secondary">>
    /\ llm_call.failed = 2
    /\ router.primary_failed
    /\ llm_ret.by = "fallback"

(* C14: once a call on an agent instance has fallen back, the instance has   *)
(* no model, and no later call on it invokes one.                            *)
C14_DowngradeIsPermanent ==
    [][(llm_hist.fell_back_at > 0) =>
          /\ agent_llm = "None"
          /\ agent_llm' = "None"
          /\ llm_hist'.invocations = llm_hist.invocations]_vars

C14_Witness ==
    /\ llm_hist.fell_back_at > 0
    /\ llm_hist.calls > llm_hist.fell_back_at
    /\ llm_call.pc = "idle"
    /\ llm_ret.by = "fallback"
    /\ router.present
    /\ router_get(router) # "RuntimeError"

(* C15: whatever the model answers, and without a model, the intent that     *)
(* IntentAgent.run returns is one of exploratory, specific, analytical.      *)
C15_IntentInType ==
    (agent_kind = "intent" /\ llm_call.pc = "idle" /\ llm_ret # <<>>) =>
        llm_ret.value \in IntentType

(* C20: a run of the streaming endpoint that is read to its end yields one   *)
(* end event, as its last record; every record before it is an update,       *)
(* except one error event right before the end when the run failed; and the  *)
(* first record of a run that did not fail at once is an update whose data   *)
(* is JSON.                                                                  *)
C20_OneEndLast ==
    LET n == Len(stream)
        At(e) == {i \in 1..n : stream[i].event = e}
    IN /\ \A i \in 1..n : stream[i].event \in {"update", "error", "end"}
       /\ At("end") \subseteq {n}
       /\ At("error") \subseteq {n - 1, n}
       /\ Cardinality(At("error")) <= 1
       /\ (n \in At("error")) => stream_pc \in {"error_end", "closed"}
       /\ stream_pc = "done" => At("end") = {n}
       /\ (n >= 1 /\ stream[1].event # "error") =>
              (stream[1].event = "update" /\ stream[1].data = "json")

C20_Witness ==
    /\ stream_pc = "done"
    /\ Len(stream) >= 4
    /\ stream[Len(stream) - 1].event = "error"
    /\ stream[Len(stream)].event = "end"
    /\ stream[1].event = "update"

(***************************************************************************)
(* Text.  A str is modelled as the sequence of its characters, so that the *)
(* string operations of the code are computed, not assumed.                *)
(***************************************************************************)
UpperLetters == <<"A", "B", "C", "D", "E", "F", "G", "H", "I", "J", "K", "L", "M",
                  "N", "O", "P", "Q", "R", "S", "T", "U", "V", "W", "X", "Y", "Z">>
LowerLetters == <<"a", "b", "c", "d", "e", "f", "g", "h", "i", "j", "k", "l", "m",
                  "n", "o", "p", "q", "r", "s", "t", "u", "v", "w", "x", "y", "z">>
DigitChars == <<"0", "1", "2", "3", "4", "5", "6", "7", "8", "9">>

IsIn(c, chars) == \E i \in DOMAIN chars : chars[i] = c
IsDigitChar(c) == IsIn(c, DigitChars)
DigitValue(c) == (CHOOSE i \in DOMAIN DigitChars : DigitChars[i] = c) - 1
(* \w of the re module, for ASCII text *)
IsWordChar(c) == IsIn(c, UpperLetters) \/ IsIn(c, LowerLetters) \/ IsDigitChar(c) \/ c = "_"
(* what str.split() and str.strip() take for white space *)
IsSpace(c) == c \in {" ", "\t", "\n"}

(* str.lower() *)
lower(s) ==
    [i \in DOMAIN s |-> IF IsIn(s[i], UpperLetters)
                        THEN LowerLetters[CHOOSE k \in DOMAIN UpperLetters : UpperLetters[k] = s[i]]
                        ELSE s[i]]

(* str.strip() *)
strip(s) ==
    IF \A i \in DOMAIN s : IsSpace(s[i]) THEN <<>>
    ELSE LET first == CHOOSE i \in DOMAIN s : ~IsSpace(s[i]) /\ \A k \in 1..(i - 1) : IsSpace(s[k])
             last == CHOOSE i \in DOMAIN s : ~IsSpace(s[i]) /\ \A k \in (i + 1)..Len(s) : IsSpace(s[k])
         IN SubSeq(s, first, last)

(* sub in s *)
Contains(s, sub) ==
    \E i \in 1..(Len(s) - Len(sub) + 1) : SubSeq(s, i, i + Len(sub) - 1) = sub

(* str.replace(old, new) for a one-character old *)
RECURSIVE replace(_, _, _)
replace(s, old, new) ==
    IF s = <<>> THEN <<>>
    ELSE (IF Head(s) = old THEN new ELSE <<Head(s)>>) \o replace(Tail(s), old, new)

(* str.isdigit(): false for the empty string *)
isdigit(s) == s # <<>> /\ \A i \in DOMAIN s : IsDigitChar(s[i])

(* str.split(): the maximal runs of characters that are not white space *)
RECURSIVE split_from(_, _, _)
split_from(s, i, word) ==
    IF i > Len(s) THEN (IF word = <<>> THEN <<>> ELSE <<word>>)
    ELSE IF IsSpace(s[i]) THEN (IF word = <<>> THEN <<>> ELSE <<word>>) \o split_from(s, i + 1, <<>>)
    ELSE split_from(s, i + 1, Append(word, s[i]))

split(s) == split_from(s, 1, <<>>)

(* (?:19|20)\d{2} matches the four characters of s from position i *)
YearAt(s, i) ==
    /\ i + 3 <= Len(s)
    /\ <<s[i], s[i + 1]>> \in {<<"1", "9">>, <<"2", "0">>}
    /\ IsDigitChar(s[i + 2])
    /\ IsDigitChar(s[i + 3])

(* int(y) of the four digits from position i *)
YearValue(s, i) ==
    1000 * DigitValue(s[i]) + 100 * DigitValue(s[i + 1]) + 10 * DigitValue(s[i + 2]) + DigitValue(s[i + 3])

(* \b of the re module at the gap before position i *)
WordBoundary(s, i) ==
    (i > 1 /\ i - 1 <= Len(s) /\ IsWordChar(s[i - 1])) # (i <= Len(s) /\ IsWordChar(s[i]))

(* re.findall: the matches from left to right, none overlapping an earlier one *)
RECURSIVE findall_years(_, _, _)
findall_years(s, i, bounded) ==
    IF i > Len(s) THEN <<>>
    ELSE IF YearAt(s, i) /\ (bounded => (WordBoundary(s, i) /\ WordBoundary(s, i + 4)))
         THEN <<YearValue(s, i)>> \o findall_years(s, i + 4, bounded)
         ELSE findall_years(s, i + 1, bounded)

RECURSIVE Concat(_)
Concat(chunks) == IF chunks = <<>> THEN <<>> ELSE Head(chunks) \o Concat(Tail(chunks))

(* The texts made of at most n pieces out of a set of pieces. *)
TextsOf(pieces, n) == {Concat(cs) : cs \in UNION {[1..k -> pieces] : k \in 0..n}}

(* Everything but the function under study is in its constructed state. *)
Idle ==
    /\ BreakerInit
    /\ failure_threshold = MaxThreshold
    /\ recovery_time_seconds = MaxRecovery
    /\ now = 1
    /\ calls = [c \in CallIds |-> NoCall]
    /\ faults = 0
    /\ AgentInit
    /\ NoPipeline
    /\ NoStep
    /\ NoServer
    /\ NoLlmAgent
    /\ NoStream
    /\ NoPlain
    /\ NoOverlap

(* The function f is applied to the arguments drawn at the start. *)
Apply(f, result) ==
    /\ applied = "none"
    /\ applied' = f
    /\ ret' = result
    /\ UNCHANGED <<args, baseVars, stepVars, serverVars, llmVars, streamVars, plainVars, overlapVars>>

(***************************************************************************)
(* ValidationAgent (src/cmr_agent/agents/validation_agent.py)              *)
(***************************************************************************)
MaxPieces == 3
MaxSubqueryCount == 6

REGION_TO_BBOX == <<
    [key |-> <<"s", "u", "b", "-", "s", "a", "h", "a", "r", "a", "n", " ", "a", "f", "r", "i", "c", "a">>, bbox |-> "ssa"],
    [key |-> <<"s", "u", "b", "s", "a", "h", "a", "r", "a", "n", " ", "a", "f", "r", "i", "c", "a">>, bbox |-> "ssa"],
    [key |-> <<"s", "u", "b", " ", "s", "a", "h", "a", "r", "a", "n", " ", "a", "f", "r", "i", "c", "a">>, bbox |-> "ssa"],
    [key |-> <<"s", "s", "a">>, bbox |-> "ssa"],
    [key |-> <<"g", "l", "o", "b", "a", "l">>, bbox |-> "global"]>>

REGIONS == {REGION_TO_BBOX[i].key : i \in DOMAIN REGION_TO_BBOX}

(* utils.infer_bbox: the box of the first key found in the text, or None *)
infer_bbox(text) ==
    LET lowered == lower(text)
        found == {i \in DOMAIN REGION_TO_BBOX : Contains(lowered, REGION_TO_BBOX[i].key)}
    IN IF found = {} THEN "None"
       ELSE REGION_TO_BBOX[CHOOSE i \in found : \A k \in found : i <= k].bbox

banned == {<<"m", "e", "d", "i", "c", "a", "l", " ", "r", "e", "c", "o", "r", "d", "s">>,
           <<"s", "o", "c", "i", "a", "l", " ", "s", "e", "c", "u", "r", "i", "t", "y">>,
           <<"b", "a", "n", "k", " ", "a", "c", "c", "o", "u", "n", "t">>}

(* ValidationAgent.run with a short query made fatal *)
ValidationAgent_run_ShortIsFatal(text, subqueries) ==
    LET blank == text = <<>> \/ strip(text) = <<>>
        short == Len(text) < 8
        lowered == lower(text)
        out_of_scope == \E b \in banned : Contains(lowered, b)
        years == findall_years(text, 1, TRUE)
        reversed == years # <<>> /\ Len(years) >= 2 /\ years[1] > years[Len(years)]
        has_region == (\E r \in REGIONS : Contains(lowered, r)) \/ infer_bbox(text) # "None"
        reasons == (IF blank THEN <<"Empty query">> ELSE <<>>)
                \o (IF short THEN <<"Very short query; may be ambiguous">> ELSE <<>>)
                \o (IF out_of_scope THEN <<"Out-of-scope content detected">> ELSE <<>>)
                \o (IF years = <<>> THEN <<"No temporal bounds detected">>
                    ELSE IF reversed THEN <<"Start year after end year">> ELSE <<>>)
                \o (IF ~has_region THEN <<"Region not recognized">> ELSE <<>>)
                \o (IF Len(subqueries) > 5 THEN <<"High complexity; will decompose into steps">> ELSE <<>>)
    IN [feasible |-> ~blank /\ ~short /\ ~out_of_scope /\ ~reversed /\ has_region,
        reasons |-> reasons,
        suggested_alternatives |-> IF ~has_region THEN [i \in DOMAIN REGION_TO_BBOX |-> REGION_TO_BBOX[i].key]
                                   ELSE <<>>]

(* ValidationAgent.run *)
ValidationAgent_run(text, subqueries) ==
    LET blank == text = <<>> \/ strip(text) = <<>>
        short == Len(text) < 8
        lowered == lower(text)
        out_of_scope == \E b \in banned : Contains(lowered, b)
        years == findall_years(text, 1, TRUE)
        reversed == years # <<>> /\ Len(years) >= 2 /\ years[1] > years[Len(years)]
        has_region == (\E r \in REGIONS : Contains(lowered, r)) \/ infer_bbox(text) # "None"
        reasons == (IF blank THEN <<"Empty query">> ELSE <<>>)
                \o (IF short THEN <<"Very short query; may be ambiguous">> ELSE <<>>)
                \o (IF out_of_scope THEN <<"Out-of-scope content detected">> ELSE <<>>)
                \o (IF years = <<>> THEN <<"No temporal bounds detected">>
                    ELSE IF reversed THEN <<"Start year after end year">> ELSE <<>>)
                \o (IF ~has_region THEN <<"Region not recognized">> ELSE <<>>)
                \o (IF Len(subqueries) > 5 THEN <<"High complexity; will decompose into steps">> ELSE <<>>)
    IN [feasible |-> ~blank /\ ~out_of_scope /\ ~reversed /\ has_region,
        reasons |-> reasons,
        suggested_alternatives |-> IF ~has_region THEN [i \in DOMAIN REGION_TO_BBOX |-> REGION_TO_BBOX[i].key]
                                   ELSE <<>>]

(* The pieces the validated queries are made of. *)
ValidationPieces == {<<"s", "s", "a">>, <<" ", "2", "0", "1", "0">>, <<" ", "1", "9", "9", "9">>, <<"2", "0", "1", "0">>, <<" ">>,
                     <<"b", "a", "n", "k", " ", "a", "c", "c", "o", "u", "n", "t">>,
                     <<" ", "G", "l", "o", "b", "a", "l">>, <<"x">>}

ValidationInputs ==
    [query : TextsOf(ValidationPieces, MaxPieces),
     subqueries : UNION {[1..n -> {<<"q">>}] : n \in 0..MaxSubqueryCount}]

validate == Apply("ValidationAgent.run", ValidationAgent_run(args.query, args.subqueries))

InitValidation ==
    /\ Idle
    /\ applied = "none"
    /\ args \in ValidationInputs
    /\ ret = <<>>

NextValidation == validate

SpecValidation == InitValidation /\ [][NextValidation]_vars

(* The checks of the validation, as conditions on the query alone. *)
IsBlank(q) == \A i \in DOMAIN q : IsSpace(q[i])
HasBanned(q) == \E b \in banned : Contains(lower(q), b)
YearsOf(q) == findall_years(q, 1, TRUE)
YearsReversed(q) == Len(YearsOf(q)) >= 2 /\ YearsOf(q)[1] > YearsOf(q)[Len(YearsOf(q))]
NoRegion(q) == ~(\E r \in REGIONS : Contains(lower(q), r))

(* The messages of the checks that trigger on a query and its subqueries. *)
TriggeredMessages(q, subs) ==
    {m \in {"Empty query", "Very short query; may be ambiguous", "Out-of-scope content detected",
            "No temporal bounds detected", "Start year after end year", "Region not recognized",
            "High complexity; will decompose into steps"} :
        \/ m = "Empty query" /\ IsBlank(q)
        \/ m = "Very short query; may be ambiguous" /\ Len(q) < 8
        \/ m = "Out-of-scope content detected" /\ HasBanned(q)
        \/ m = "No temporal bounds detected" /\ YearsOf(q) = <<>>
        \/ m = "Start year after end year" /\ YearsReversed(q)
        \/ m = "Region not recognized" /\ NoRegion(q)
        \/ m = "High complexity; will decompose into steps" /\ Len(subs) > 5}

(* C22: validate returns feasible = false exactly when a fatal check        *)
(* triggers (blank query, banned phrase, two or more years with the first   *)
(* greater than the last, no recognized region), and reasons holds the      *)
(* message of every check that triggered, fatal or warning, and of no other.*)
C22_FeasibleIffNoFatal ==
    applied = "ValidationAgent.run" =>
        /\ (ret.feasible = FALSE) <=>
               (IsBlank(args.query) \/ HasBanned(args.query) \/ YearsReversed(args.query) \/ NoRegion(args.query))
        /\ {ret.reasons[i] : i \in DOMAIN ret.reasons} = TriggeredMessages(args.query, args.subqueries)

(* A short query with a region and years in order: a warning only, still feasible. *)
C22_Witness ==
    /\ applied = "ValidationAgent.run"
    /\ ret.feasible = TRUE
    /\ ret.reasons = <<"Very short query; may be ambiguous", "No temporal bounds detected">>

(***************************************************************************)
(* infer_temporal (src/cmr_agent/utils.py)                                 *)
(***************************************************************************)
MinOf(seq) == CHOOSE x \in {seq[i] : i \in DOMAIN seq} : \A i \in DOMAIN seq : x <= seq[i]
MaxOf(seq) == CHOOSE x \in {seq[i] : i \in DOMAIN seq} : \A i \in DOMAIN seq : x >= seq[i]

(* strftime('%Y') of a year of four digits *)
YearText(y) ==
    <<DigitChars[((y \div 1000) % 10) + 1], DigitChars[((y \div 100) % 10) + 1],
      DigitChars[((y \div 10) % 10) + 1], DigitChars[(y % 10) + 1]>>

(* datetime(y, 1, 1).strftime('%Y-%m-%dT%H:%M:%SZ') *)
StartOfYear(y) == YearText(y) \o <<"-", "0", "1", "-", "0", "1", "T", "0", "0", ":", "0", "0", ":", "0", "0", "Z">>

(* datetime(y, 12, 31, 23, 59, 59).strftime('%Y-%m-%dT%H:%M:%SZ') *)
EndOfYear(y) == YearText(y) \o <<"-", "1", "2", "-", "3", "1", "T", "2", "3", ":", "5", "9", ":", "5", "9", "Z">>

(* None, which is no str: no sequence of characters equals it *)
None == <<"None">>

(* infer_temporal *)
infer_temporal(text) ==
    LET years == findall_years(text, 1, FALSE)
    IN IF Len(years) >= 2 THEN <<StartOfYear(MinOf(years)), EndOfYear(MaxOf(years))>>
       ELSE <<None, None>>

(* The pieces the texts are made of. *)
TemporalPieces == {<<"2", "0", "1", "0">>, <<"1", "9", "9", "9">>, <<"2", "0">>, <<"1">>, <<"-">>, <<" ">>, <<"r", "a", "i", "n">>}

infer == Apply("infer_temporal", infer_temporal(args))

InitTemporal ==
    /\ Idle
    /\ applied = "none"
    /\ args \in TextsOf(TemporalPieces, MaxPieces)
    /\ ret = <<>>

NextTemporal == infer

SpecTemporal == InitTemporal /\ [][NextTemporal]_vars

(* The years 19xx / 20xx that occur in a text. *)
YearsIn(text) == {YearValue(text, i) : i \in {k \in DOMAIN text : YearAt(text, k)}}

(* C26: infer_temporal returns (null, null) exactly when the text holds     *)
(* fewer than two distinct years 19xx / 20xx; otherwise it returns the      *)
(* first instant of the least year and the last instant of the greatest.    *)
C26_NullIffFewerThanTwoDistinctYears ==
    applied = "infer_temporal" =>
        /\ (ret = <<None, None>>) <=> (Cardinality(YearsIn(args)) < 2)
        /\ Cardinality(YearsIn(args)) >= 2 =>
               ret = <<StartOfYear(CHOOSE y \in YearsIn(args) : \A z \in YearsIn(args) : y <= z),
                       EndOfYear(CHOOSE y \in YearsIn(args) : \A z \in YearsIn(args) : y >= z)>>

(***************************************************************************)
(* PlanningAgent (src/cmr_agent/agents/planning_agent.py)                  *)
(***************************************************************************)
Elems(seq) == {seq[i] : i \in DOMAIN seq}

(* for x in xs: if x not in out: out.append(x) *)
RECURSIVE AddNew(_, _)
AddNew(out, xs) ==
    IF xs = <<>> THEN out
    ELSE AddNew(IF Head(xs) \in Elems(out) THEN out ELSE Append(out, Head(xs)), Tail(xs))

(* list(dict.fromkeys(xs)) *)
Dedupe(xs) == AddNew(<<>>, xs)

(* PlanningAgent._baseline_synonyms *)
baseline_synonyms(terms) ==
    IF Elems(terms) \cap {<<"r", "a", "i", "n">>, <<"r", "a", "i", "n", "f", "a", "l", "l">>} # {}
    THEN AddNew(terms, <<<<"p", "r", "e", "c", "i", "p", "i", "t", "a", "t", "i", "o", "n">>, <<"i", "m", "e", "r", "g">>, <<"t", "r", "m", "m">>>>)
    ELSE terms

(* PlanningAgent._expand_terms; llm.reply says whether self.llm is None,   *)
(* or the call raises (in ainvoke or json.loads), or the model replies the *)
(* list llm.terms                                                          *)
expand_terms(seeds, llm) ==
    LET NonEmpty(x) == x # <<>>
        kept == SelectSeq(seeds, NonEmpty)
        expanded == [i \in DOMAIN kept |-> lower(kept[i])]
        cleaned == SelectSeq([i \in DOMAIN llm.terms |-> strip(lower(llm.terms[i]))], NonEmpty)
    IN IF llm.reply = "None" \/ seeds = <<>> THEN Dedupe(baseline_synonyms(expanded))
       ELSE Dedupe(baseline_synonyms(AddNew(expanded, cleaned)))

STOPWORDS == {<<"o", "v", "e", "r">>, <<"i", "n">>, <<"t", "h", "e">>, <<"a">>, <<"a", "n">>, <<"a", "n", "d">>,
              <<"o", "r">>, <<"t", "o">>, <<"o", "f">>, <<"f", "o", "r">>, <<"o", "n">>, <<"w", "i", "t", "h">>}

(* the loop over fallback_synonyms: each base maps to ["precipitation"] *)
fallback_synonyms(variable_terms) ==
    IF Elems(variable_terms) \cap {<<"r", "a", "i", "n", "f", "a", "l", "l">>, <<"i", "m", "e", "r", "g">>, <<"t", "r", "m", "m">>} # {}
    THEN AddNew(variable_terms, <<<<"p", "r", "e", "c", "i", "p", "i", "t", "a", "t", "i", "o", "n">>>>)
    ELSE variable_terms

(* the variable terms PlanningAgent.run builds from the expanded terms *)
VariableTermsOf(expanded) ==
    LET Kept(t) == t # <<>> /\ ~isdigit(replace(t, "-", <<>>)) /\ ~(t \in STOPWORDS)
    IN fallback_synonyms(Dedupe(SelectSeq([i \in DOMAIN expanded |-> lower(strip(expanded[i]))], Kept)))

(* PlanningAgent.run *)
PlanningAgent_run(user_q, subqueries, llm) ==
    LET NonEmpty(x) == x # <<>>
        lowered == lower(user_q)
        tokens == split(replace(lowered, ",", <<" ">>))
        seeds == SelectSeq([i \in DOMAIN subqueries |-> strip(subqueries[i])], NonEmpty)
                 \o SelectSeq([i \in DOMAIN tokens |-> strip(tokens[i])], NonEmpty)
        expanded == expand_terms(seeds, llm)
        variable_terms == VariableTermsOf(expanded)
        criteria == [query |-> user_q, expanded_terms |-> expanded, variable_terms |-> variable_terms]
    IN [parallel |-> TRUE,
        expanded_terms |-> expanded,
        variable_terms |-> variable_terms,
        stages |-> <<[name |-> "collection_search", type |-> "collection_search",
                      criteria |-> criteria, depends_on |-> <<>>],
                     [name |-> "granule_search", type |-> "granule_search",
                      criteria |-> criteria, depends_on |-> <<"collection_search">>],
                     [name |-> "variable_search", type |-> "variable_search",
                      criteria |-> criteria, depends_on |-> <<>>]>>]

(* The pieces the planned queries are made of, the subquery lists and the  *)
(* replies of the model.                                                   *)
PlanningPieces == {<<"r", "a", "i", "n", "f", "a", "l", "l">>, <<" ", "O", "v", "e", "r", " ">>, <<"2", "0", "1", "0">>, <<"-">>, <<",">>, <<".">>}
PlanningSubqueries == {<<>>, <<<<" ", "r", "a", "i", "n", "f", "a", "l", "l", " ", "o", "v", "e", "r", " ", "a", "f", "r", "i", "c", "a", " ">>>>, <<<<>>>>, <<<<" ", "O", "V", "E", "R">>, <<"2", "0", "1", "0", "-", "2", "0", "1", "2">>>>}
LlmReplies == {[reply |-> "None", terms |-> <<>>], [reply |-> "raises", terms |-> <<>>],
               [reply |-> "list", terms |-> <<>>],
               [reply |-> "list", terms |-> <<<<" ", "I", "M", "E", "R", "G", " ">>, <<"O", "f">>>>]}

PlanningInputs == [user_query : TextsOf(PlanningPieces, MaxPieces), subqueries : PlanningSubqueries, llm : LlmReplies]

plan_query == Apply("PlanningAgent.run", PlanningAgent_run(args.user_query, args.subqueries, args.llm))

InitPlanning ==
    /\ Idle
    /\ applied = "none"
    /\ args \in PlanningInputs
    /\ ret = <<>>

NextPlanning == plan_query

SpecPlanning == InitPlanning /\ [][NextPlanning]_vars

(* C27: for every query that contains "rainfall", whatever the subqueries,  *)
(* the variable terms of the plan contain "rainfall" and "precipitation",   *)
(* do not contain "over", and contain no term made of digits and hyphens    *)
(* only.                                                                    *)
C27_RainfallTerms ==
    (applied = "PlanningAgent.run" /\ Contains(args.user_query, <<"r", "a", "i", "n", "f", "a", "l", "l">>)) =>
        /\ <<"r", "a", "i", "n", "f", "a", "l", "l">> \in Elems(ret.variable_terms)
        /\ <<"p", "r", "e", "c", "i", "p", "i", "t", "a", "t", "i", "o", "n">> \in Elems(ret.variable_terms)
        /\ ~(<<"o", "v", "e", "r">> \in Elems(ret.variable_terms))
        /\ \A t \in Elems(ret.variable_terms) : \E i \in DOMAIN t : ~(IsDigitChar(t[i]) \/ t[i] = "-")

(***************************************************************************)
(* AnalysisAgent (src/cmr_agent/agents/analysis_agent.py), on search       *)
(* results that carry concept ids, time ranges, variable names and         *)
(* associations.  Platforms and resolutions are absent                     *)
(* from the collections, and the fields computed from them or from the     *)
(* clock (score, latency_days, coverage_chart) are left out.  A granule    *)
(* has a time range or none, and one bounding box or none.                 *)
(* A time is a day of January 2020 at midnight, with or without an offset. *)
(***************************************************************************)
MaxSearches == 2

Stamp(day, aware) == [ok |-> TRUE, day |-> day, aware |-> aware]
(* a timestamp datetime.fromisoformat raises on, or a missing one *)
BadStamp == [ok |-> FALSE, day |-> 0, aware |-> FALSE]
(* bbox: None, or [west, south, east, north] *)
NoBox == <<>>
Granule(b, e) == [RangeDateTime |-> TRUE, BeginningDateTime |-> b, EndingDateTime |-> e, BoundingBox |-> NoBox]
(* the granule with a bounding box *)
Boxed(g, box) == [g EXCEPT !.BoundingBox = box]
(* the granule with its TemporalExtent.RangeDateTime removed *)
WithoutRange(g) == [g EXCEPT !.RangeDateTime = FALSE, !.BeginningDateTime = BadStamp, !.EndingDateTime = BadStamp]
Variable(name, assocs) == [Name |-> name, associations |-> assocs]
Search(q, cols, grans, variables) == [query |-> q, collections |-> cols, granules |-> grans, variables |-> variables]

(* start / end: None, or a datetime *)
NoTime == [set |-> FALSE, day |-> 0, aware |-> FALSE]
Time(t) == [set |-> TRUE, day |-> t.day, aware |-> t.aware]
(* record_length_days: None, or a number of days *)
NoDays == [none |-> TRUE, days |-> 0]
Days(n) == [none |-> FALSE, days |-> n]

(* the spatial part of the loop over grans, for one granule: the union of  *)
(* the boxes so far                                                        *)
Spatial(acc, g) ==
    IF g.BoundingBox = NoBox THEN acc
    ELSE IF acc.bbox = NoBox THEN [acc EXCEPT !.bbox = g.BoundingBox]
    ELSE [acc EXCEPT !.bbox = <<Min(acc.bbox[1], g.BoundingBox[1]), Min(acc.bbox[2], g.BoundingBox[2]),
                                Max(acc.bbox[3], g.BoundingBox[3]), Max(acc.bbox[4], g.BoundingBox[4])>>]

(* the body of the loop over grans, for one granule: with a timestamp      *)
(* that does not parse, or a comparison of a datetime with an offset and   *)
(* one without, raises, and the rest of the body is skipped                *)
(* (continue), the spatial part included                                   *)
CoverGranule(acc, g) ==
    IF ~g.RangeDateTime THEN Spatial(acc, g)
    ELSE IF ~g.BeginningDateTime.ok \/ ~g.EndingDateTime.ok THEN acc
    ELSE IF acc.start.set /\ acc.start.aware # g.BeginningDateTime.aware THEN acc
    ELSE LET start == IF ~acc.start.set \/ g.BeginningDateTime.day < acc.start.day
                      THEN Time(g.BeginningDateTime) ELSE acc.start
         IN IF acc.end.set /\ acc.end.aware # g.EndingDateTime.aware THEN [acc EXCEPT !.start = start]
            ELSE Spatial([acc EXCEPT !.start = start,
                                     !.end = IF ~acc.end.set \/ g.EndingDateTime.day > acc.end.day
                                             THEN Time(g.EndingDateTime) ELSE acc.end], g)

RECURSIVE Cover(_, _)
Cover(acc, grans) == IF grans = <<>> THEN acc ELSE Cover(CoverGranule(acc, Head(grans)), Tail(grans))

(* strftime('%Y-%m-%d') of a day of January 2020 *)
Date(day) == <<"2", "0", "2", "0", "-", "0", "1", "-">> \o <<DigitChars[(day \div 10) + 1], DigitChars[(day % 10) + 1]>>

(* str(n) for n >= 0 *)
RECURSIVE str(_)
str(n) == IF n < 10 THEN <<DigitChars[n + 1]>> ELSE str(n \div 10) \o <<DigitChars[(n % 10) + 1]>>

(* int(s) for a string of digits *)
RECURSIVE int(_)
int(s) == IF s = <<>> THEN 0 ELSE 10 * int(SubSeq(s, 1, Len(s) - 1)) + DigitValue(s[Len(s)])

(* intervals.sort(key=lambda x: x[0]): stable, by the beginning *)
RECURSIVE SortByBegin(_)
SortByBegin(intervals) ==
    IF intervals = <<>> THEN <<>>
    ELSE LET rest == SortByBegin(SubSeq(intervals, 1, Len(intervals) - 1))
             x == intervals[Len(intervals)]
             before == SelectSeq(rest, LAMBDA y : y.BeginningDateTime.day <= x.BeginningDateTime.day)
             after == SelectSeq(rest, LAMBDA y : y.BeginningDateTime.day > x.BeginningDateTime.day)
         IN before \o <<x>> \o after

(* whether the block that builds temporal_gaps raises: it parses every     *)
(* timestamp, sorts the intervals by their beginnings and compares each    *)
(* beginning with the previous ending                                      *)
GapsRaise(grans) ==
    \/ \E i \in DOMAIN grans : ~grans[i].BeginningDateTime.ok \/ ~grans[i].EndingDateTime.ok
    \/ \E i, k \in DOMAIN grans : grans[i].BeginningDateTime.aware # grans[k].BeginningDateTime.aware
    \/ \E i \in 2..Len(grans) :
           SortByBegin(grans)[i].BeginningDateTime.aware # SortByBegin(grans)[i - 1].EndingDateTime.aware

RECURSIVE GapsFrom(_, _)
GapsFrom(intervals, i) ==
    IF i > Len(intervals) THEN <<>>
    ELSE (IF intervals[i].BeginningDateTime.day > intervals[i - 1].EndingDateTime.day
          THEN <<[gap_start |-> Date(intervals[i - 1].EndingDateTime.day),
                  gap_end |-> Date(intervals[i].BeginningDateTime.day),
                  gap_days |-> str(intervals[i].BeginningDateTime.day - intervals[i - 1].EndingDateTime.day)]>>
          ELSE <<>>) \o GapsFrom(intervals, i + 1)

TemporalGaps(grans) ==
    LET ranged == SelectSeq(grans, LAMBDA g : g.RangeDateTime)
    IN IF GapsRaise(ranged) THEN <<>> ELSE GapsFrom(SortByBegin(ranged), 2)

RECURSIVE MissingDays(_)
MissingDays(gaps) == IF gaps = <<>> THEN 0 ELSE int(Head(gaps).gap_days) + MissingDays(Tail(gaps))

(* round(num / den, 0) for den > 0: to the nearest integer, ties to the even one *)
Round(num, den) ==
    LET q == num \div den
        r == num % den
    IN IF 2 * r < den THEN q ELSE IF 2 * r > den THEN q + 1 ELSE IF q % 2 = 0 THEN q ELSE q + 1

(* the concept ids of the items that have one *)
ConceptIds(cols) == SelectSeq(cols, LAMBDA cid : cid # "")

(* the quality block with the has_data guards dropped *)
Quality_AsIfData(has_data, record_length_days, temporal_gaps) ==
    LET missing_days == MissingDays(temporal_gaps)
        temporal_pct == IF ~record_length_days.none /\ record_length_days.days > 0
                        THEN Round(1000 * (record_length_days.days - missing_days), record_length_days.days)
                        ELSE 0
    IN [temporal_res |-> "hourly",
        coverage |-> [temporal_pct |-> temporal_pct],
        completeness_score |-> temporal_pct,
        tradeoffs |-> <<"coarse grid vs long record">>,
        record_length_days |-> record_length_days,
        gap_days |-> missing_days]

(* the quality block; temporal_pct is in tenths of a percent and           *)
(* completeness_score in thousandths                                        *)
Quality(has_data, record_length_days, temporal_gaps) ==
    LET missing_days == MissingDays(temporal_gaps)
        temporal_pct == IF ~record_length_days.none /\ record_length_days.days > 0
                        THEN Round(1000 * (record_length_days.days - missing_days), record_length_days.days)
                        ELSE 0
    IN [temporal_res |-> IF has_data THEN "hourly" ELSE "None",
        coverage |-> [temporal_pct |-> temporal_pct],
        completeness_score |-> IF has_data THEN temporal_pct ELSE 0,
        tradeoffs |-> IF has_data THEN <<"coarse grid vs long record">> ELSE <<>>,
        record_length_days |-> record_length_days,
        gap_days |-> missing_days]

(* the body of the loop over searches: the entry appended to queries *)
QueryEntry(srch) ==
    LET cols == srch.collections
        grans == srch.granules
        variables == srch.variables
        cover == Cover([start |-> NoTime, end |-> NoTime, bbox |-> NoBox], grans)
        covered == cover.start.set /\ cover.end.set
        record_length_days == IF covered /\ cover.start.aware = cover.end.aware
                              THEN Days(cover.end.day - cover.start.day) ELSE NoDays
        temporal_gaps == TemporalGaps(grans)
    IN [query |-> srch.query,
        collections_found |-> Len(cols),
        granules_found |-> Len(grans),
        variables_found |-> Len(variables),
        temporal_coverage |-> IF covered THEN [covered |-> TRUE, start |-> Date(cover.start.day), end |-> Date(cover.end.day)]
                              ELSE [covered |-> FALSE, start |-> <<>>, end |-> <<>>],
        spatial_extent |-> cover.bbox,
        related_collections |-> ConceptIds(cols),
        temporal_gaps |-> temporal_gaps,
        quality |-> Quality(cols # <<>> \/ grans # <<>> \/ variables # <<>>, record_length_days, temporal_gaps)]

(* the variable-collection edges of one variable item, then of a list of them *)
EdgesOf(v) ==
    IF v.Name = "" THEN <<>>
    ELSE LET cids == ConceptIds(v.associations)
         IN [i \in DOMAIN cids |-> [source |-> v.Name, target |-> cids[i], type |-> "variable-collection"]]

RECURSIVE VariableEdges(_)
VariableEdges(variables) ==
    IF variables = <<>> THEN <<>> ELSE EdgesOf(Head(variables)) \o VariableEdges(Tail(variables))

RECURSIVE KnowledgeEdges(_)
KnowledgeEdges(searches) ==
    IF searches = <<>> THEN <<>> ELSE VariableEdges(Head(searches).variables) \o KnowledgeEdges(Tail(searches))

(* the concept ids and variable names the inputs are made of, in sorted() order *)
CollectionIds == <<"C1", "C2">>
VariableNames == <<"VarA", "VarB">>

(* sorted(c for c in cols_set) *)
sorted(cols_set) == SelectSeq(CollectionIds, LAMBDA c : c \in cols_set)

(* dataset_rels with an entry for every variable that has a collection *)
DatasetRelationships_Single(edges) ==
    LET sources == Dedupe([i \in DOMAIN edges |-> edges[i].source])
        var_to_cols == [v \in Elems(sources) |-> {edges[i].target : i \in {k \in DOMAIN edges : edges[k].source = v}}]
        shared == SelectSeq(sources, LAMBDA v : Cardinality(var_to_cols[v]) >= 1)
    IN [i \in DOMAIN shared |->
           [variable |-> shared[i], collections |-> sorted(var_to_cols[shared[i]]), reason |-> "Collections share variable"]]

(* dataset_rels, from var_to_cols *)
DatasetRelationships(edges) ==
    LET sources == Dedupe([i \in DOMAIN edges |-> edges[i].source])
        var_to_cols == [v \in Elems(sources) |-> {edges[i].target : i \in {k \in DOMAIN edges : edges[k].source = v}}]
        shared == SelectSeq(sources, LAMBDA v : Cardinality(var_to_cols[v]) > 1)
    IN [i \in DOMAIN shared |->
           [variable |-> shared[i], collections |-> sorted(var_to_cols[shared[i]]), reason |-> "Collections share variable"]]

(* col_to_queries[cid]: the index of a query, once for each time cid is    *)
(* among its related collections                                           *)
RECURSIVE QueriesOf(_, _, _)
QueriesOf(cid, queries, i) ==
    IF i > Len(queries) THEN <<>>
    ELSE [k \in 1..Len(SelectSeq(queries[i].related_collections, LAMBDA c : c = cid)) |-> i - 1]
         \o QueriesOf(cid, queries, i + 1)

(* cross_collection_map *)
CrossCollectionMap(queries) ==
    LET seen == UNION {Elems(queries[i].related_collections) : i \in DOMAIN queries}
    IN [cid \in {c \in seen : Len(QueriesOf(c, queries, 1)) > 1} |-> QueriesOf(cid, queries, 1)]

RECURSIVE RelatedCollections(_)
RelatedCollections(queries) ==
    IF queries = <<>> THEN <<>>
    ELSE LET q == Head(queries)
         IN [i \in DOMAIN q.related_collections |->
                [concept_id |-> q.related_collections[i], why_related |-> "variable association",
                 temporal_coverage |-> q.temporal_coverage]]
            \o RelatedCollections(Tail(queries))

RECURSIVE Total(_, _)
Total(queries, field) == IF queries = <<>> THEN 0 ELSE Head(queries)[field] + Total(Tail(queries), field)

(* AnalysisAgent.run *)
AnalysisAgent_run(cmr_results) ==
    LET searches == cmr_results.searches
        queries == [i \in DOMAIN searches |-> QueryEntry(searches[i])]
        edges == KnowledgeEdges(searches)
        related == RelatedCollections(queries)
        summary ==
            [total_collections |-> Total(queries, "collections_found"),
             total_granules |-> Total(queries, "granules_found"),
             total_variables |-> Total(queries, "variables_found"),
             queries |-> queries,
             knowledge_graph |->
                 [nodes |-> [collections |-> sorted(UNION {Elems(queries[i].related_collections) : i \in DOMAIN queries}),
                             variables |-> SelectSeq(VariableNames, LAMBDA n :
                                 \E i \in DOMAIN searches : \E k \in DOMAIN searches[i].variables :
                                     searches[i].variables[k].Name = n),
                             instruments |-> <<>>],
                  edges |-> edges],
             dataset_relationships |-> DatasetRelationships(edges),
             results_paging |-> [page |-> 1, page_size |-> 50, next_token |-> ""],
             knowledge_links |-> <<>>,
             data_refs |-> [i \in 1..Min(Len(related), 2) |-> related[i].concept_id],
             cross_collection_map |-> CrossCollectionMap(queries)]
    IN IF searches = <<>> THEN summary ELSE Put(summary, "related_collections", related)

(* The search entries the analysed results are made of. *)
CollectionLists == {<<>>, <<"C1">>, <<"C1", "C1">>, <<"C1", "C2">>, <<"">>}
GranuleLists ==
    {<<Granule(Stamp(1, TRUE), Stamp(10, TRUE))>>,
     <<Granule(Stamp(1, TRUE), Stamp(10, TRUE)), Granule(Stamp(5, TRUE), Stamp(20, TRUE))>>,
     <<Granule(Stamp(5, TRUE), Stamp(20, TRUE)), Granule(Stamp(1, TRUE), Stamp(10, TRUE))>>,
     <<Granule(Stamp(12, FALSE), Stamp(20, FALSE)), Granule(Stamp(1, FALSE), Stamp(5, FALSE))>>,
     <<Granule(Stamp(5, TRUE), Stamp(20, TRUE)), Granule(Stamp(1, FALSE), Stamp(10, FALSE))>>,
     <<Granule(Stamp(5, TRUE), Stamp(20, FALSE))>>,
     <<Granule(Stamp(5, TRUE), BadStamp), Granule(Stamp(7, TRUE), Stamp(9, TRUE))>>,
     <<Granule(Stamp(1, TRUE), Stamp(2, TRUE)), Granule(Stamp(10, TRUE), Stamp(20, FALSE))>>,
     <<Granule(Stamp(1, TRUE), Stamp(20, TRUE)), Granule(Stamp(2, TRUE), Stamp(3, TRUE)),
       Granule(Stamp(10, TRUE), Stamp(11, TRUE))>>,
     <<Boxed(Granule(BadStamp, Stamp(20, TRUE)), <<5, 5, 20, 20>>)>>,
     <<Boxed(Granule(Stamp(1, TRUE), Stamp(5, TRUE)), <<0, 0, 10, 10>>),
       Granule(Stamp(10, TRUE), Stamp(12, TRUE)),
       Boxed(Granule(BadStamp, Stamp(20, TRUE)), <<5, 5, 20, 20>>)>>,
     <<Boxed(Granule(Stamp(1, TRUE), Stamp(5, TRUE)), <<0, 0, 10, 10>>),
       Granule(Stamp(10, TRUE), Stamp(12, TRUE)),
       WithoutRange(Boxed(Granule(BadStamp, Stamp(20, TRUE)), <<5, 5, 20, 20>>))>>}
VariableLists ==
    {<<Variable("VarA", <<"C1", "C2">>)>>,
     <<Variable("VarA", <<"C1">>), Variable("VarB", <<"C2", "">>)>>,
     <<Variable("VarA", <<"C1">>), Variable("VarA", <<"C2", "C1">>)>>,
     <<Variable("VarB", <<"C1", "C1">>)>>,
     <<Variable("", <<"C1", "C2">>)>>}

SearchEntries ==
    {Search(q, cols, <<>>, <<>>) : q \in {"q1"}, cols \in CollectionLists}
    \cup {Search(q, <<>>, grans, <<>>) : q \in {"q1"}, grans \in GranuleLists}
    \cup {Search(q, cols, <<>>, variables) : q \in {"q1"}, cols \in {<<>>, <<"C1", "C2">>}, variables \in VariableLists}

AnalysisInputs == [searches : UNION {[1..n -> SearchEntries] : n \in 0..MaxSearches}]

analyze == Apply("AnalysisAgent.run", AnalysisAgent_run(args))

InitAnalysis ==
    /\ Idle
    /\ applied = "none"
    /\ args \in AnalysisInputs
    /\ ret = <<>>

NextAnalysis == analyze

SpecAnalysis == InitAnalysis /\ [][NextAnalysis]_vars

(* The queries (counted from 0) among whose collections an id appears. *)
QueriesWith(cid, searches) ==
    {i - 1 : i \in {k \in DOMAIN searches : cid \in Elems(searches[k].collections)}}

(* C23: cross_collection_map holds exactly the collection ids that appear   *)
(* in at least two different queries, each mapped to the indices of the     *)
(* queries in which it appeared; an id that appears in one query only,      *)
(* however often, is absent.                                                *)
C23_CrossMapIsSharedIds ==
    applied = "AnalysisAgent.run" =>
        /\ DOMAIN ret.cross_collection_map =
               {cid \in Elems(CollectionIds) : Cardinality(QueriesWith(cid, args.searches)) >= 2}
        /\ \A cid \in DOMAIN ret.cross_collection_map :
               Elems(ret.cross_collection_map[cid]) = QueriesWith(cid, args.searches)

(* The collection ids associated with the variables of a given name. *)
AssociatedWith(name, searches) ==
    {cid \in Elems(CollectionIds) :
        \E i \in DOMAIN searches : \E k \in DOMAIN searches[i].variables :
            /\ searches[i].variables[k].Name = name
            /\ cid \in Elems(searches[i].variables[k].associations)}

(* C24: a variable associated with two or more distinct collections has     *)
(* exactly one dataset_relationships entry, which lists each of those       *)
(* collection ids once; a variable associated with fewer than two distinct  *)
(* collections has no entry.                                                *)
C24_OneEntryPerSharedVariable ==
    applied = "AnalysisAgent.run" =>
        \A name \in Elems(VariableNames) :
            LET rels == ret.dataset_relationships
                entries == {i \in DOMAIN rels : rels[i].variable = name}
                cids == AssociatedWith(name, args.searches)
            IN IF Cardinality(cids) >= 2
               THEN /\ Cardinality(entries) = 1
                    /\ \A i \in entries : /\ Elems(rels[i].collections) = cids
                                          /\ Len(rels[i].collections) = Cardinality(cids)
               ELSE entries = {}

(* A variable reported by two queries, each time with another collection,   *)
(* beside a variable with one collection only.                              *)
C24_Witness ==
    /\ applied = "AnalysisAgent.run"
    /\ Len(args.searches) = 2
    /\ args.searches[1].variables = <<Variable("VarA", <<"C1">>), Variable("VarA", <<"C2", "C1">>)>>
    /\ args.searches[2].variables = <<Variable("VarB", <<"C1", "C1">>)>>
    /\ Len(ret.dataset_relationships) = 1
    /\ ret.dataset_relationships[1].collections = <<"C1", "C2">>

EmptyEntry(srch) == srch.collections = <<>> /\ srch.granules = <<>> /\ srch.variables = <<>>

(* C25: on an empty searches list, and on entries whose collections,        *)
(* granules and variables are all empty, the output carries the totals      *)
(* (all 0), the queries list, the knowledge graph, the dataset              *)
(* relationships and the cross-collection map, and each per-query quality   *)
(* has temporal_res null, temporal_pct 0.0, completeness_score 0.0 and no   *)
(* tradeoffs.                                                               *)
C25_EmptyInputKeepsShape ==
    (applied = "AnalysisAgent.run" /\ \A i \in DOMAIN args.searches : EmptyEntry(args.searches[i])) =>
        /\ {"total_collections", "total_granules", "total_variables", "queries", "knowledge_graph",
            "dataset_relationships", "cross_collection_map"} \subseteq DOMAIN ret
        /\ ret.total_collections = 0 /\ ret.total_granules = 0 /\ ret.total_variables = 0
        /\ Len(ret.queries) = Len(args.searches)
        /\ \A i \in DOMAIN ret.queries :
               /\ ret.queries[i].quality.temporal_res = "None"
               /\ ret.queries[i].quality.coverage.temporal_pct = 0
               /\ ret.queries[i].quality.completeness_score = 0
               /\ ret.queries[i].quality.tradeoffs = <<>>

(* Two entries with nothing found have been analysed. *)
C25_Witness ==
    /\ applied = "AnalysisAgent.run"
    /\ Len(args.searches) = 2
    /\ \A i \in DOMAIN args.searches : EmptyEntry(args.searches[i])
    /\ Len(ret.queries) = 2
    /\ ret.queries[2].quality.temporal_res = "None"

(* C28: when every granule of a query has a time range that parses, the     *)
(* temporal coverage of the query starts at the earliest beginning and ends *)
(* at the latest ending over all its granules, in any input order, and      *)
(* record_length_days is the end minus the start in days.                   *)
C28_CoverageIsSpan ==
    applied = "AnalysisAgent.run" =>
        \A i \in DOMAIN args.searches :
            LET grans == args.searches[i].granules
                entry == ret.queries[i]
            IN (grans # <<>> /\ \A k \in DOMAIN grans : grans[k].BeginningDateTime.ok /\ grans[k].EndingDateTime.ok) =>
                   LET first == CHOOSE d \in {grans[k].BeginningDateTime.day : k \in DOMAIN grans} :
                                    \A k \in DOMAIN grans : d <= grans[k].BeginningDateTime.day
                       last == CHOOSE d \in {grans[k].EndingDateTime.day : k \in DOMAIN grans} :
                                    \A k \in DOMAIN grans : d >= grans[k].EndingDateTime.day
                   IN /\ entry.temporal_coverage.covered
                      /\ entry.temporal_coverage.start = Date(first)
                      /\ entry.temporal_coverage.end = Date(last)
                      /\ entry.quality.record_length_days = Days(last - first)

(***************************************************************************)
(* The recommendations of synthesis_step (src/cmr_agent/graph/pipeline.py) *)
(***************************************************************************)
MaxQueries == 2

Normalized(value) == lower(strip(value))

(* append_unique, without the comparison with the entries already there *)
append_unique_Always(target, value, why) ==
    IF value = <<>> \/ Normalized(value) = <<>> THEN target
    ELSE Append(target, [collection |-> value, rank |-> Len(target) + 1, why |-> why])

(* synthesis_step.append_unique *)
append_unique(target, value, why) ==
    IF value = <<>> THEN target
    ELSE IF Normalized(value) = <<>>
            \/ Normalized(value) \in {Normalized(target[i].collection) : i \in DOMAIN target}
         THEN target
         ELSE Append(target, [collection |-> value, rank |-> Len(target) + 1, why |-> why])

(* for value in values: append_unique(recs, value, why), with no break *)
RECURSIVE AppendEach(_, _, _)
AppendEach(recs, values, why) ==
    IF values = <<>> THEN recs ELSE AppendEach(append_unique(recs, Head(values), why), Tail(values), why)

(* for value in values: append_unique(recs, value, why); if len(recs) >= 5: break *)
RECURSIVE AppendUntilFull(_, _, _)
AppendUntilFull(recs, values, why) ==
    IF values = <<>> THEN recs
    ELSE LET r == append_unique(recs, Head(values), why)
         IN IF Len(r) >= 5 THEN r ELSE AppendUntilFull(r, Tail(values), why)

(* Primary: up to 3 example collections of each query; the length is       *)
(* looked at after each query only                                         *)
RECURSIVE Primary(_, _)
Primary(recs, queries) ==
    IF queries = <<>> THEN recs
    ELSE LET r == AppendEach(recs, Take(Head(queries).example_collections, 3), "coverage + relevance (example)")
         IN IF Len(r) >= 5 THEN r ELSE Primary(r, Tail(queries))

(* Fallbacks B, C and the final guard: up to n values of a field of each   *)
(* item, both loops left as soon as there are 5 recommendations            *)
RECURSIVE PerItem(_, _, _, _, _)
PerItem(recs, items, field, n, why) ==
    IF items = <<>> THEN recs
    ELSE LET r == AppendUntilFull(recs, Take(Head(items)[field], n), why)
         IN IF Len(r) >= 5 THEN r ELSE PerItem(r, Tail(items), field, n, why)

(* the suggestions for the keywords of the query *)
Suggestions(uq) ==
    (IF Contains(uq, <<"p", "r", "e", "c", "i", "p", "i", "t", "a", "t", "i", "o", "n">>) \/ Contains(uq, <<"r", "a", "i", "n">>) \/ Contains(uq, <<"r", "a", "i", "n", "f", "a", "l", "l">>)
     THEN <<<<"G", "P", "M", " ", "I", "M", "E", "R", "G">>, <<"T", "R", "M", "M", " ", "3", "B", "4", "2">>, <<"C", "H", "I", "R", "P", "S">>, <<"G", "P", "C", "C">>, <<"E", "R", "A", "5">>>> ELSE <<>>)
    \o (IF Contains(uq, <<"a", "e", "r", "o", "s", "o", "l">>) THEN <<<<"M", "O", "D", "I", "S", " ", "A", "e", "r", "o", "s", "o", "l">>, <<"M", "E", "R", "R", "A", "-", "2", " ", "A", "e", "r", "o", "s", "o", "l">>>> ELSE <<>>)

(* Fallback A: the concept ids of the top-level related collections *)
FallbackA(recs, analysis) ==
    IF Len(recs) < 5
    THEN AppendUntilFull(recs, SelectSeq([i \in DOMAIN Take(analysis.related_collections, 10) |->
                                             analysis.related_collections[i].concept_id], LAMBDA x : x # <<>>),
                         "related collection (variables)")
    ELSE recs

(* Fallback B: the related collections of each query *)
FallbackB(recs, analysis) ==
    IF Len(recs) < 5
    THEN PerItem(recs, Take(analysis.queries, 5), "related_collections", 5, "related collection (per-query)")
    ELSE recs

(* Fallback C: the collections of the dataset relationships *)
FallbackC(recs, analysis) ==
    IF Len(recs) < 5
    THEN PerItem(recs, Take(analysis.dataset_relationships, 5), "collections", 5, "related via shared variable")
    ELSE recs

(* Fallback D: the titles of the semantic context *)
FallbackD(recs, semantic_context) ==
    IF Len(recs) < 3
    THEN AppendUntilFull(recs, SelectSeq([i \in DOMAIN Take(semantic_context, 3) |->
                                             semantic_context[i].doc_title], LAMBDA x : x # <<>>),
                         "semantic context match")
    ELSE recs

(* Fallback E taken whether or not there are recommendations already *)
FallbackE_Always(recs, user_q) ==
    IF Len(recs) < 5
    THEN AppendUntilFull(recs, Dedupe(Suggestions(lower(user_q))), "keyword-based suggestion")
    ELSE recs

(* Fallback E: the suggestions for the keywords of the query *)
FallbackE(recs, user_q) ==
    IF recs = <<>>
    THEN AppendUntilFull(recs, Dedupe(Suggestions(lower(user_q))), "keyword-based suggestion")
    ELSE recs

(* Final guard: the example collections again *)
FinalGuard(recs, analysis) ==
    IF recs = <<>>
    THEN PerItem(recs, Take(analysis.queries, 5), "example_collections", 5, "example collection (fallback)")
    ELSE recs

(* comparison['ranked_recommendations'] as synthesis_step builds it *)
ranked_recommendations(analysis, semantic_context, user_q) ==
    Take(FinalGuard(FallbackE(FallbackD(FallbackC(FallbackB(FallbackA(
             Primary(<<>>, Take(analysis.queries, 5)),
             analysis), analysis), analysis), semantic_context), user_q), analysis), 5)

(* The labels and ids the analysed results carry. *)
ExampleLists == {<<>>, <<<<"A">>, <<"B">>, <<"C">>>>, <<<<"D">>, <<"E">>, <<"F">>>>, <<<<" ", "a", " ">>, <<"A">>, <<" ", " ">>>>, <<<<"a">>, <<"B", " ">>, <<"b">>>>}
RelatedLists == {<<>>, <<<<"C", "1">>, <<"c", "1">>, <<"C", "2">>>>}
QueryEntries == [example_collections : ExampleLists, related_collections : RelatedLists]

QueryLists == UNION {[1..n -> QueryEntries] : n \in 0..MaxQueries}
RelatedDetails == {<<>>, <<[concept_id |-> <<"C", "1">>], [concept_id |-> <<>>], [concept_id |-> <<"c", "1", " ">>], [concept_id |-> <<"A">>]>>}
Relationships == {<<>>, <<[collections |-> <<<<"C", "2">>, <<"C", "3">>>>], [collections |-> <<<<"C", "3">>, <<"C", "4">>, <<"c", "2">>>>]>>}
SemanticContexts == {<<>>, <<[doc_title |-> <<"T", "1">>], [doc_title |-> <<>>], [doc_title |-> <<" ", "t", "1">>]>>}
RecommendQueries == {<<"R", "a", "i", "n", " ", "a", "n", "d", " ", "a", "e", "r", "o", "s", "o", "l">>, <<"a", "e", "r", "o", "s", "o", "l">>, <<"x">>}

recommend == Apply("synthesis_step", ranked_recommendations(args.analysis, args.semantic_context, args.user_query))

InitRecommend ==
    /\ Idle
    /\ applied = "none"
    /\ \E queries \in QueryLists, related \in RelatedDetails, rels \in Relationships,
          context \in SemanticContexts, uq \in RecommendQueries :
           args = [analysis |-> [queries |-> queries, related_collections |-> related,
                                 dataset_relationships |-> rels],
                   semantic_context |-> context, user_query |-> uq]
    /\ ret = <<>>

NextRecommend == recommend

SpecRecommend == InitRecommend /\ [][NextRecommend]_vars

(* C21: in every final response ranked_recommendations has at most 5        *)
(* entries, and no two entries have collection labels that are equal after  *)
(* trimming and lower-casing, whatever the analysis, the semantic context   *)
(* and the query contain.                                                   *)
C21_AtMostFiveDistinct ==
    applied = "synthesis_step" =>
        /\ Len(ret) <= 5
        /\ \A i, k \in DOMAIN ret :
               i # k => lower(strip(ret[i].collection)) # lower(strip(ret[k].collection))

(* Six example collections were offered, two of them under labels that      *)
(* differ in case and blanks only; five recommendations came out.           *)
C21_Witness ==
    /\ applied = "synthesis_step"
    /\ Len(args.analysis.queries) = 2
    /\ args.analysis.queries[1].example_collections = <<<<" ", "a", " ">>, <<"A">>, <<" ", " ">>>>
    /\ args.analysis.queries[2].example_collections = <<<<"D">>, <<"E">>, <<"F">>>>
    /\ Len(ret) = 5
    /\ ret[1].collection = <<" ", "a", " ">>

(***************************************************************************)
(* The plan of the PlanningAgent, run by CMRAgent.run as cmr_step does     *)
(***************************************************************************)
(* what run_stage reads from a stage of the plan: its query, or the query  *)
(* of the run, and its variable_terms, or none                             *)
StageRead(stage_dict, run_query) ==
    [query |-> Get(stage_dict, "query", run_query),
     variable_terms |-> Get(stage_dict, "variable_terms", <<>>)]

(* the searches run_stage issues before any result is in: a variable       *)
(* search per term, a short-name and a science-keyword collection search   *)
(* for each of the first 3 terms                                           *)
StageSearches(stage_dict, run_query) ==
    LET variable_terms == VariableTerms(StageRead(stage_dict, run_query))
    IN [variables |-> [i \in DOMAIN variable_terms |-> [keyword |-> variable_terms[i], page_size |-> 25]],
        short_name |-> Take(variable_terms, TermLimit),
        science_keywords_h |-> Take(variable_terms, TermLimit)]

(* cmr_step: agent.run(state['user_query'], state['plan']), for the plan   *)
(* planning_step stored                                                    *)
run_plan ==
    /\ applied = "PlanningAgent.run"
    /\ applied' = "CMRAgent.run"
    /\ ret' = [plan |-> ret,
               stages |-> [i \in DOMAIN ret.stages |-> StageSearches(ret.stages[i], args.user_query)]]
    /\ UNCHANGED <<args, baseVars, stepVars, serverVars, llmVars, streamVars, plainVars, overlapVars>>

NextPlannedRun == plan_query \/ run_plan

SpecPlannedRun == InitPlanning /\ [][NextPlannedRun]_vars

(* C30: when the orchestrator runs the plan of the Query Planner, each      *)
(* stage issues exactly one variable search for each entry of the plan's    *)
(* variable terms, with that term as keyword, and the short-name and        *)
(* science-keyword collection searches use the first 3 of those terms.      *)
C30_StagesSearchPlannedTerms ==
    applied = "CMRAgent.run" =>
        \A i \in DOMAIN ret.stages :
            /\ [k \in DOMAIN ret.stages[i].variables |-> ret.stages[i].variables[k].keyword]
                   = ret.plan.variable_terms
            /\ ret.stages[i].short_name = Take(ret.plan.variable_terms, 3)
            /\ ret.stages[i].science_keywords_h = Take(ret.plan.variable_terms, 3)

(***************************************************************************)
(* CMRAgent.run without a plan (src/cmr_agent/agents/cmr_agent.py):        *)
(* search_for(q) for each subquery, gathered.  The breaker stays closed;   *)
(* a search ends with the items found or with an error of the transport.   *)
(***************************************************************************)
MaxPlain == 2

Scheduled == [status |-> "scheduled", ok |-> FALSE, items |-> <<>>]
Awaiting == [status |-> "awaiting", ok |-> FALSE, items |-> <<>>]
Done(ok, items) == [status |-> "done", ok |-> ok, items |-> items]

(* what a search can end with: an error, or the concept ids of its items *)
SearchOutcomes == {Done(FALSE, <<>>), Done(TRUE, <<>>), Done(TRUE, <<"C1">>), Done(TRUE, <<"C2", "C1">>)}

Issued(q, endpoint, cid, page_size) ==
    [sub |-> q, event |-> "issued", endpoint |-> endpoint, collection_concept_id |-> cid, page_size |-> page_size]
Completed(q, endpoint) ==
    [sub |-> q, event |-> "completed", endpoint |-> endpoint, collection_concept_id |-> "", page_size |-> 0]

(* search_for.handle: a dict is passed on, an exception becomes no items and an error *)
handle(res) == [items |-> IF res.ok THEN res.items ELSE <<>>, error |-> ~res.ok]

(* run(query, subqueries): asyncio.gather starts search_for(q) for each    *)
(* subquery; each creates its three coroutines and gathers them, which     *)
(* schedules a task for each, in the order of the arguments                *)
plain_run(n) ==
    /\ plain_pc = "idle"
    /\ plain_pc' = "running"
    /\ plain' = [q \in 1..n |-> [collections |-> Scheduled, granules |-> Scheduled, variables |-> Scheduled,
                                 returned |-> FALSE, result |-> <<>>]]
    /\ plain_ready' = [i \in 1..(3 * n) |->
                          <<((i - 1) \div 3) + 1,
                            <<"collections", "granules", "variables">>[((i - 1) % 3) + 1]>>]
    /\ plain_log' = <<>>
    /\ UNCHANGED <<baseVars, stepVars, serverVars, llmVars, streamVars, pureVars, overlapVars>>

(* the task of collections_task runs first: the search is issued and the   *)
(* coroutine is suspended in the request                                   *)
collections_task_starts ==
    /\ plain_ready # <<>>
    /\ Head(plain_ready)[2] = "collections"
    /\ LET q == Head(plain_ready)[1]
       IN /\ plain' = [plain EXCEPT ![q].collections = Awaiting]
          /\ plain_log' = Append(plain_log, Issued(q, "collections", "", 25))
    /\ plain_ready' = Tail(plain_ready)
    /\ UNCHANGED <<plain_pc, baseVars, stepVars, serverVars, llmVars, streamVars, pureVars, overlapVars>>

(* the task of granules(params) runs next: await collections_task awaits a *)
(* coroutine that the task before it is running already, which raises      *)
(* RuntimeError; except Exception: pass; return {"items": []}              *)
granules_task_runs ==
    /\ plain_ready # <<>>
    /\ Head(plain_ready)[2] = "granules"
    /\ LET q == Head(plain_ready)[1]
       IN /\ plain[q].collections.status # "scheduled"
          /\ plain' = [plain EXCEPT ![q].granules = Done(TRUE, <<>>)]
    /\ plain_ready' = Tail(plain_ready)
    /\ UNCHANGED <<plain_pc, plain_log, baseVars, stepVars, serverVars, llmVars, streamVars, pureVars, overlapVars>>

(* the task of variables_task: the search is issued *)
variables_task_starts ==
    /\ plain_ready # <<>>
    /\ Head(plain_ready)[2] = "variables"
    /\ LET q == Head(plain_ready)[1]
       IN /\ plain' = [plain EXCEPT ![q].variables = Awaiting]
          /\ plain_log' = Append(plain_log, Issued(q, "variables", "", 25))
    /\ plain_ready' = Tail(plain_ready)
    /\ UNCHANGED <<plain_pc, baseVars, stepVars, serverVars, llmVars, streamVars, pureVars, overlapVars>>

(* a search that was issued ends *)
search_ends(q, endpoint, outcome) ==
    /\ plain_pc = "running"
    /\ q \in DOMAIN plain
    /\ plain[q][endpoint].status = "awaiting"
    /\ plain' = [plain EXCEPT ![q][endpoint] = outcome]
    /\ plain_log' = Append(plain_log, Completed(q, endpoint))
    /\ UNCHANGED <<plain_pc, plain_ready, baseVars, stepVars, serverVars, llmVars, streamVars, pureVars, overlapVars>>

(* the inner gather is complete: search_for returns *)
search_for_returns(q) ==
    /\ plain_pc = "running"
    /\ q \in DOMAIN plain
    /\ ~plain[q].returned
    /\ \A endpoint \in {"collections", "granules", "variables"} : plain[q][endpoint].status = "done"
    /\ plain' = [plain EXCEPT ![q].returned = TRUE,
                              ![q].result = [query |-> q,
                                             collections |-> handle(plain[q].collections),
                                             granules |-> handle(plain[q].granules),
                                             variables |-> handle(plain[q].variables)]]
    /\ UNCHANGED <<plain_pc, plain_ready, plain_log, baseVars, stepVars, serverVars, llmVars, streamVars, pureVars, overlapVars>>

(* the outer gather is complete: run returns *)
plain_returns ==
    /\ plain_pc = "running"
    /\ \A q \in DOMAIN plain : plain[q].returned
    /\ plain_pc' = "returned"
    /\ UNCHANGED <<plain, plain_ready, plain_log, baseVars, stepVars, serverVars, llmVars, streamVars, pureVars, overlapVars>>

InitPlain ==
    /\ Idle
    /\ NoApply
    /\ NoPlain
    /\ NoOverlap

NextPlain ==
    \/ \E n \in 1..MaxPlain : plain_run(n)
    \/ collections_task_starts
    \/ granules_task_runs
    \/ variables_task_starts
    \/ \E q \in 1..MaxPlain, endpoint \in {"collections", "variables"}, outcome \in SearchOutcomes :
           search_ends(q, endpoint, outcome)
    \/ \E q \in 1..MaxPlain : search_for_returns(q)
    \/ plain_returns

SpecPlain == InitPlain /\ [][NextPlain]_vars

(* C29: in plain mode, for each subquery whose collection search returns    *)
(* at least one item with a concept id, exactly one granule search is       *)
(* issued, after the collection search has completed, with                  *)
(* collection_concept_id the id of the first collection returned and page   *)
(* size 50; when the collection search returns no items or fails, no        *)
(* granule search is issued and the granule result is empty.                *)
C29_OneGranuleSearchPerFoundCollection ==
    plain_pc = "returned" =>
        \A q \in DOMAIN plain :
            LET found == plain[q].collections
                searches == {i \in DOMAIN plain_log :
                                /\ plain_log[i].sub = q
                                /\ plain_log[i].event = "issued"
                                /\ plain_log[i].endpoint = "granules"}
            IN IF found.ok /\ found.items # <<>>
               THEN /\ Cardinality(searches) = 1
                    /\ \A i \in searches :
                           /\ plain_log[i].collection_concept_id = found.items[1]
                           /\ plain_log[i].page_size = 50
                           /\ \E k \in 1..(i - 1) : plain_log[k] = Completed(q, "collections")
               ELSE /\ searches = {}
                    /\ plain[q].result.granules.items = <<>>

----------------------------------------------------------------------------
(* The collections a stage's searches returned, in the order the merge     *)
(* reads them: keyword, short-name, science-keyword, batch, cache hits.    *)
ReturnedCollections(s) ==
    stage[s].kw_cols
    \o ItemsOfAll(ExtraCalls(s))
    \o stage[s].by_id
    \o stage[s].cached

FirstAt(items, id) == CHOOSE k \in 1..Len(items) :
    items[k].id = id /\ \A l \in 1..(k - 1) : items[l].id # id

(* merged holds each id of returned once, in the order of first occurrence *)
FirstSeenMerge(merged, returned) ==
    /\ \A i, j \in 1..Len(merged) : i # j => merged[i].id # merged[j].id
    /\ \A k \in 1..Len(returned) : \E i \in 1..Len(merged) : merged[i].id = returned[k].id
    /\ \A i \in 1..Len(merged) :
          /\ \E k \in 1..Len(returned) : returned[k].id = merged[i].id
          /\ merged[i] = returned[FirstAt(returned, merged[i].id)]
    /\ \A i, j \in 1..Len(merged) :
          i < j => FirstAt(returned, merged[i].id) < FirstAt(returned, merged[j].id)

(* C31: in staged mode the merged collections of a stage hold no two items  *)
(* of one concept id, hold every collection the stage's searches returned,  *)
(* and are in first-seen order over keyword, short-name, science-keyword,   *)
(* batch results and cache hits; the stage output carries that list.        *)
C31_MergedCollectionsFirstSeen ==
    [][\A s \in StageIds :
          /\ (stage[s].pc = "extra" /\ stage'[s].pc \in {"granules", "done"})
                => FirstSeenMerge(stage'[s].merged, ReturnedCollections(s))
          /\ (stage'[s].pc = "done" /\ stage[s].pc # "done")
                => stage'[s].out.collections = stage'[s].merged]_vars

(* a stage ended whose keyword search found nothing, whose extra searches   *)
(* found two collections, and whose batch lookup returned one of them again *)
C31_Witness ==
    \E s \in StageIds :
        /\ stage[s].pc = "done"
        /\ stage[s].kw_cols = <<>>
        /\ stage[s].by_id # <<>>
        /\ Len(stage[s].merged) = 2
        /\ stage[s].out.collections = stage[s].merged

(* C32: in a stage output the merged variables hold no two items of one     *)
(* concept id, also when two variable terms return the same variable.       *)
C32_MergedVariablesUnique ==
    \A s \in StageIds :
        stage[s].pc = "done" =>
            \A i, j \in 1..Len(stage[s].out.variables) :
                i # j => stage[s].out.variables[i].id # stage[s].out.variables[j].id

----------------------------------------------------------------------------
(* One agent given a plan of one stage with MaxTerms + 1 variable terms,   *)
(* against an API that answers every collection and variable search and    *)
(* fails up to MaxFaults granule requests of a run.                        *)
WidePlans == {<<[query |-> <<"q">>, variable_terms |-> TermList(MaxTerms + 1)]>>}

WideCalls == AgentCallIds \cup WideCallIds

NextWide ==
    \/ RunStart(WidePlans)
    \/ \E s \in StageIds : StageStart(s)
    \/ \E s \in StageIds : StageAfterVariables(s)
    \/ \E s \in StageIds : StageAfterIdLookup(s)
    \/ \E s \in StageIds : StageAfterKeyword(s)
    \/ \E s \in StageIds : StageAfterExtra(s)
    \/ \E s \in StageIds : StageAfterGranules(s)
    \/ RunReturn
    \/ \E c \in WideCalls : Wake(c)
    \/ \E c \in WideCalls :
          HttpRespond(c) /\ (c[2] = "gran" \/ faults' = faults) /\ faults' <= MaxFaults
    \/ (TimerPending /\ Tick)

SpecWide == InitStages /\ [][NextWide]_vars

----------------------------------------------------------------------------
(* what the gather over search_for(q) hands to run in plain mode: the      *)
(* results in the order of the subqueries                                  *)
PlainSearches == [q \in DOMAIN plain |-> plain[q].result]

(* C33: whatever the order in which the concurrent operations complete,     *)
(* the searches list of a run has one entry per stage of the plan (per      *)
(* subquery in plain mode) and entry i is the output of the i-th stage      *)
(* (subquery) of the request.                                               *)
C33_SearchesInRequestOrder ==
    /\ run_pc = "returned" =>
          /\ Len(run_result.searches) = Len(plan)
          /\ \A i \in 1..Len(plan) :
                /\ run_result.searches[i] = stage[i].out
                /\ run_result.searches[i].query = plan[i].query
    /\ plain_pc = "returned" =>
          \A i \in DOMAIN plain : PlainSearches[i].query = i

(* a run of two stages returned, and the two stages found different things *)
C33_Witness ==
    /\ run_pc = "returned"
    /\ Len(plan) = 2
    /\ stage[1].out # stage[2].out
    /\ run_result.searches = <<stage[1].out, stage[2].out>>

----------------------------------------------------------------------------
(* the granule search of stage s for the j-th merged collection *)
GranCall(s, j) == calls[<<s, "gran", j>>]

(* C34: a stage issues its granule searches only once its collections are   *)
(* merged, one for each of the first 3 merged collections in merged order   *)
(* and no other, each filtered by that collection's concept id with page    *)
(* size 50; a failed granule search contributes no items, and the items of  *)
(* the other searches are all in the stage's granules.                      *)
C34_GranulesOfFirstThree ==
    [][\A s \in StageIds :
          /\ \A j \in 1..(GranuleLimit + 1) :
                GranCall(s, j)' # NoCall =>
                    /\ stage'[s].pc = "granules"
                    /\ j <= 3
                    /\ j <= Len(stage'[s].merged)
                    /\ GranCall(s, j)'.endpoint = "granules"
                    /\ GranCall(s, j)'.params =
                          [kind |-> "collection_concept_id",
                           value |-> stage'[s].merged[j].id, page_size |-> 50]
          /\ stage'[s].pc = "granules" =>
                \A j \in 1..3 : j <= Len(stage'[s].merged) => GranCall(s, j)' # NoCall
          /\ (stage[s].pc = "granules" /\ stage'[s].pc = "done") =>
                stage'[s].out.granules =
                    Flatten([j \in 1..Min(Len(stage[s].merged), 3) |->
                                IF GranCall(s, j).pc = "returned"
                                THEN GranCall(s, j).result ELSE <<>>])]_vars

(* a stage merged four collections and its three granule searches are over: *)
(* one failed, another returned a granule                                   *)
C34_Witness ==
    \E s \in StageIds :
        /\ stage[s].pc = "granules"
        /\ Len(stage[s].merged) = 4
        /\ \A j \in 1..3 : GranCall(s, j).pc \in {"returned", "raised"}
        /\ GranCall(s, 4) = NoCall
        /\ \E j \in 1..3 : GranCall(s, j).pc = "raised"
        /\ \E j \in 1..3 : GranCall(s, j).pc = "returned" /\ GranCall(s, j).result # <<>>

----------------------------------------------------------------------------
(* the search with the time range of its k-th granule removed *)
RangeRemoved(srch, k) == [srch EXCEPT !.granules[k] = WithoutRange(@)]

(* C35: a granule whose time range is present but does not parse counts as  *)
(* a granule without a time range: the coverage interval, the temporal gaps *)
(* and the bounding-box union of its query are those of the same granules   *)
(* with that granule's time range removed.                                  *)
C35_MalformedRangeIsNoRange ==
    applied = "AnalysisAgent.run" =>
        \A i \in DOMAIN args.searches :
            \A k \in DOMAIN args.searches[i].granules :
                LET g == args.searches[i].granules[k]
                    entry == ret.queries[i]
                    expected == QueryEntry(RangeRemoved(args.searches[i], k))
                IN (g.RangeDateTime /\ (~g.BeginningDateTime.ok \/ ~g.EndingDateTime.ok)) =>
                       /\ entry.temporal_coverage = expected.temporal_coverage
                       /\ entry.temporal_gaps = expected.temporal_gaps
                       /\ entry.spatial_extent = expected.spatial_extent

(* C39: for granules whose time ranges parse and begin no later than they   *)
(* end, the gaps between the intervals adjacent in start order add up to    *)
(* between 0 and record_length_days, and coverage.temporal_pct lies in      *)
(* [0, 100] (here in tenths of a percent).                                  *)
C39_TemporalPctInRange ==
    applied = "AnalysisAgent.run" =>
        \A i \in DOMAIN args.searches :
            LET grans == args.searches[i].granules
                quality == ret.queries[i].quality
            IN (\A k \in DOMAIN grans :
                    /\ grans[k].RangeDateTime
                    /\ grans[k].BeginningDateTime.ok /\ grans[k].EndingDateTime.ok
                    /\ grans[k].BeginningDateTime.day <= grans[k].EndingDateTime.day) =>
                   /\ quality.gap_days >= 0
                   /\ ~quality.record_length_days.none => quality.gap_days <= quality.record_length_days.days
                   /\ quality.coverage.temporal_pct >= 0
                   /\ quality.coverage.temporal_pct <= 1000

----------------------------------------------------------------------------
(* the place of a 'why' tag in the chain of rules of synthesis_step *)
RuleOf(why) ==
    CASE why = "coverage + relevance (example)" -> 1
      [] why = "related collection (variables)" -> 2
      [] why = "related collection (per-query)" -> 3
      [] why = "related via shared variable" -> 4
      [] why = "semantic context match" -> 5
      [] why = "keyword-based suggestion" -> 6
      [] why = "example collection (fallback)" -> 7
      [] OTHER -> 0

(* C36: in ranked_recommendations the entry at position i has rank i, the   *)
(* entries are in the order of the rules that admitted them, and a          *)
(* keyword-based suggestion is there only when no earlier rule admitted an  *)
(* entry.                                                                   *)
C36_RanksAndRuleOrder ==
    applied = "synthesis_step" =>
        /\ \A i \in DOMAIN ret : ret[i].rank = i /\ RuleOf(ret[i].why) >= 1
        /\ \A i, k \in DOMAIN ret : i < k => RuleOf(ret[i].why) <= RuleOf(ret[k].why)
        /\ (\E i \in DOMAIN ret : ret[i].why = "keyword-based suggestion") =>
               \A k \in DOMAIN ret : RuleOf(ret[k].why) >= 6

(* recommendations admitted by three different rules came out *)
C36_Witness ==
    /\ applied = "synthesis_step"
    /\ Cardinality({ret[i].why : i \in DOMAIN ret}) >= 3
    /\ ret[Len(ret)].rank = Len(ret)

(* keyword-based suggestions came out *)
C36_KeywordCase ==
    /\ applied = "synthesis_step"
    /\ ret # <<>>
    /\ \A i \in DOMAIN ret : ret[i].why = "keyword-based suggestion"

----------------------------------------------------------------------------
(* C37: the failure count is not reset when an open window expires: it is   *)
(* the number of failures since the last success, so the first failure      *)
(* after a recovery re-opens the breaker for recovery_time_seconds; and     *)
(* every failure recorded with the count at or above the threshold moves    *)
(* open_until to the time of that failure plus recovery_time_seconds.       *)
C37_FailureAfterRecoveryReopens ==
    [][/\ failures' = consec_fail'
       /\ (cb_rec'[DirectCaller].fail # cb_rec[DirectCaller].fail /\ failures >= failure_threshold) =>
             /\ open_until' = now + RecoveryTicks
             /\ ~allow'
       /\ (cb_rec'[DirectCaller].fail # cb_rec[DirectCaller].fail /\ failures + 1 >= failure_threshold) =>
             open_until' = now + RecoveryTicks]_vars

(* the window of the failure that reached the threshold had expired, the    *)
(* next call failed with no success in between, and the breaker is open     *)
(* again until recovery_time_seconds after that failure                     *)
C37_Witness ==
    /\ consec_fail = failure_threshold + 1
    /\ last_fail_time = now
    /\ last_fail_time >= thresh_time + RecoveryTicks
    /\ open_until = last_fail_time + RecoveryTicks
    /\ ~allow

----------------------------------------------------------------------------
(***************************************************************************)
(* Calls of run_query_stream that overlap (src/server/main.py): each is a  *)
(* generator with its own history, all share SESSIONS.  Between the copy   *)
(* of the history and the finally block a call awaits the agents, and the  *)
(* event loop runs the other calls.                                        *)
(***************************************************************************)
(* the call up to its first await: the stored history is copied and the    *)
(* query appended (lines 52-54)                                            *)
request_start(r, q, sid) ==
    /\ requests[r].pc = "none"
    /\ requests' = [o \in DOMAIN requests |->
          IF o = r
          THEN [pc |-> "running", sid |-> sid, query |-> q,
                history |-> Append(IF Truthy(sid) THEN Get(SESSIONS, sid, <<>>) ELSE <<>>, q),
                overlapped |-> \E x \in DOMAIN requests :
                                  x # r /\ requests[x].pc = "running" /\ requests[x].sid = sid]
          ELSE IF requests[o].pc = "running" /\ requests[o].sid = sid
               THEN [requests[o] EXCEPT !.overlapped = TRUE]
               ELSE requests[o]]
    /\ UNCHANGED <<baseVars, stepVars, serverVars, llmVars, streamVars, pureVars, plainVars>>

(* the generator ends, by its end event, an error or its consumer closing  *)
(* it: the finally block stores the history (lines 197-199)                *)
request_finally(r) ==
    /\ requests[r].pc = "running"
    /\ requests' = [requests EXCEPT ![r].pc = "done"]
    /\ SESSIONS' = IF requests[r].sid # NoSessionId
                   THEN Put(SESSIONS, requests[r].sid, requests[r].history)
                   ELSE SESSIONS
    /\ UNCHANGED <<response, asked, failed, baseVars, stepVars, llmVars, streamVars, pureVars, plainVars>>

InitOverlap ==
    /\ Idle
    /\ NoApply

NextOverlap ==
    \/ \E r \in 1..MaxOverlap, q \in QueryTexts, sid \in SessionIds \cup {NoSessionId} :
          request_start(r, q, sid)
    \/ \E r \in 1..MaxOverlap : request_finally(r)

SpecOverlap == InitOverlap /\ [][NextOverlap]_vars

(* C38: when two streaming requests of one session overlap, the history     *)
(* stored for the session after both have finished contains both queries.   *)
C38_NoQueryLost ==
    \A r1, r2 \in DOMAIN requests :
        (/\ r1 # r2
         /\ requests[r1].pc = "done" /\ requests[r2].pc = "done"
         /\ requests[r1].sid = requests[r2].sid
         /\ requests[r1].sid # NoSessionId
         /\ requests[r1].overlapped /\ requests[r2].overlapped) =>
            /\ InSeq(requests[r1].query, Get(SESSIONS, requests[r1].sid, <<>>))
            /\ InSeq(requests[r2].query, Get(SESSIONS, requests[r1].sid, <<>>))

(* a request never changes the history stored under another session id *)
OtherSessionsUntouched ==
    [][\A r \in DOMAIN requests : requests'[r].pc # requests[r].pc =>
          \A sid \in SessionIds : sid # requests'[r].sid =>
              Get(SESSIONS', sid, <<>>) = Get(SESSIONS, sid, <<>>)]_vars

(* both requests of session "abc" have finished and the stored history      *)
(* holds the query of one of them only                                      *)
LostUpdate ==
    /\ requests[1].pc = "done" /\ requests[2].pc = "done"
    /\ requests[1].sid = "abc" /\ requests[2].sid = "abc"
    /\ requests[1].overlapped /\ requests[2].overlapped
    /\ requests[1].query = "first" /\ requests[2].query = "second"
    /\ Get(SESSIONS, "abc", <<>>) = <<"second">>

----------------------------------------------------------------------------
(***************************************************************************)
(* One LLMRouter called directly (src/cmr_agent/llm/router.py): args is    *)
(* the sequence of the calls made so far, applied the method called last   *)
(* and ret what it returned, "RuntimeError" when it raised.                *)
(***************************************************************************)
MaxRouterCalls == 4

(* what a caller can hand to record_failure: a configured provider, None,  *)
(* or an object the router does not know                                   *)
Providers == {"primary", "secondary", "None", "injected"}

router_call_get ==
    /\ Len(args) < MaxRouterCalls
    /\ applied' = "LLMRouter.get"
    /\ args' = Append(args, <<"get">>)
    /\ ret' = router_get(router)
    /\ UNCHANGED <<router, agent_kind, agent_llm, llm_call, llm_ret, llm_hist,
                   baseVars, stepVars, serverVars, streamVars, plainVars, overlapVars>>

router_call_record_failure(provider) ==
    /\ Len(args) < MaxRouterCalls
    /\ provider \in router.providers \cup {"None", "injected"}
    /\ applied' = "LLMRouter.record_failure"
    /\ args' = Append(args, <<"record_failure", provider>>)
    /\ router' = router_record_failure(router, provider)
    /\ ret' = "None"
    /\ UNCHANGED <<agent_kind, agent_llm, llm_call, llm_ret, llm_hist,
                   baseVars, stepVars, serverVars, streamVars, plainVars, overlapVars>>

InitRouter ==
    /\ BreakerInit
    /\ failure_threshold = MaxThreshold
    /\ recovery_time_seconds = MaxRecovery
    /\ now = 1
    /\ calls = [c \in CallIds |-> NoCall]
    /\ faults = 0
    /\ AgentInit
    /\ NoPipeline
    /\ NoStep
    /\ NoServer
    /\ NoStream
    /\ NoApply
    /\ NoPlain
    /\ NoOverlap
    /\ agent_kind = "intent"
    /\ \E ps \in ProviderConfigs :
          router = [present |-> TRUE, providers |-> ps,
                    primary_failed |-> FALSE, secondary_failed |-> FALSE]
    /\ agent_llm = "None"
    /\ llm_call = NoLlmCall
    /\ llm_ret = <<>>
    /\ llm_hist = [calls |-> 0, invocations |-> 0, fell_back_at |-> 0]

NextRouter ==
    \/ router_call_get
    \/ \E provider \in Providers : router_call_record_failure(provider)

SpecRouter == InitRouter /\ [][NextRouter]_vars

(* the providers handed to record_failure so far *)
RecordedFailed == {args[i][2] : i \in {k \in DOMAIN args : args[k][1] = "record_failure"}}

(* what the last call, a get(), returned, against the calls made before it *)
GetAsRecorded ==
    applied = "LLMRouter.get" =>
        /\ ret \notin RecordedFailed
        /\ ("primary" \in router.providers /\ "primary" \notin RecordedFailed) => ret = "primary"
        /\ router.providers \subseteq RecordedFailed => ret = "RuntimeError"
        /\ ret # "RuntimeError" => ret \in router.providers

(* C40: after any sequence of get() and record_failure() calls on one       *)
(* router, get() never returns a provider that was recorded as failed,      *)
(* returns the primary while it has not failed, and raises once every       *)
(* configured provider has failed; a failure flag that is set stays set.    *)
C40_RouterSkipsFailed ==
    [][/\ GetAsRecorded'
       /\ router.primary_failed => router'.primary_failed
       /\ router.secondary_failed => router'.secondary_failed
       /\ router'.providers = router.providers]_vars

(* the primary was recorded as failed and a later get() returned the        *)
(* secondary                                                                *)
C40_Witness ==
    /\ applied = "LLMRouter.get"
    /\ "primary" \in RecordedFailed
    /\ ret = "secondary"
    /\ router.primary_failed

(* every configured provider was recorded as failed and get() raised *)
C40_AllFailed ==
    /\ applied = "LLMRouter.get"
    /\ router.providers = {"primary", "secondary"}
    /\ router.providers \subseteq RecordedFailed
    /\ ret = "RuntimeError"

====
